---- MODULE Spec2Model ----
(***************************************************************************)
(* Retrieval and accuracy scoring of the appliance-troubleshooting RAG     *)
(* system: src/tools.py (calculate_accuracy_score,                         *)
(* _check_model_appliance_type, search_samsung_manuals_rag) over the       *)
(* responses of rag_pipeline.retriever.search_manuals_rag.                 *)
(*                                                                         *)
(* Representation.                                                         *)
(*  - A Python str is a sequence of one-character strings, so that upper,  *)
(*    lower, replace, strip, split, slicing and `in` are computed          *)
(*    character by character as the interpreter computes them.            *)
(*  - A dict is a function on the keys it holds; d.get(k, default) is Get. *)
(*  - None is a sentinel; None and "" are false, as in Python.             *)
(*  - A similarity score s in [0,1] is the integer 1000*s (thousandths).   *)
(*    A number rounded to one decimal (accuracy, breakdown.similarity) is  *)
(*    the integer 10*x (tenths): accuracy 93.6 is 936.  The weighted sum   *)
(*    is computed exactly over a common denominator.                       *)
(***************************************************************************)
EXTENDS Integers, Sequences, FiniteSets, TLC

VARIABLES
    pc,                   \* the position of the call or job in progress
    results,              \* calculate_accuracy_score: results
    user_model,           \* user_model (None or a str)
    user_brand,           \* user_brand (None or a str)
    user_appliance_type,  \* user_appliance_type / appliance_type (None or a str)
    aux,                  \* what search_manuals_rag answers to the auxiliary lookup
    top_k,                \* search_samsung_manuals_rag: top_k
    min_similarity,       \* search_samsung_manuals_rag: min_similarity (thousandths)
    fetched,              \* what search_manuals_rag answers to the main search
    ret,                  \* the value returned by the call (None before it returns)
    sent,                 \* the search requests QdrantStore.search received, in order
    ret1,                 \* the value an earlier call with the same arguments returned
    index,                \* the collection: point id -> point
    index_before,         \* the collection as it was when the job started
    batch_size,           \* OpenAIEmbedder.batch_size / add_documents: batch_size
    embedding_model,      \* OpenAIEmbedder.model
    nodes,                \* the chunks (TextNode) of the job
    all_embeddings,       \* embed_texts: all_embeddings
    failed_batches,       \* the batch numbers whose embeddings.create call raised
    embedded_docs,        \* embed_nodes' result / add_documents: documents
    embed_stats,          \* ingest_manuals_from_gcs: embed_stats
    batch_start,          \* the loop variable i of the batch loop in progress
    next_id,              \* how many node ids have been generated so far
    runs,                 \* how many jobs have been started
    gcs_uris,             \* batch_process_documents: the files behind gcs_uris
    size_threshold_mb     \* DocumentProcessor.size_threshold_mb

callVars == <<results, user_model, user_brand, user_appliance_type, aux,
              top_k, min_similarity, fetched>>

ingestVars == <<index, index_before, batch_size, embedding_model, nodes, all_embeddings,
                failed_batches, embedded_docs, embed_stats, batch_start, next_id,
                runs, gcs_uris, size_threshold_mb>>

vars == <<pc, callVars, ret, sent, ret1, ingestVars>>

\* None where a str is expected: a sequence that is no character sequence
None == <<"None">>
EmptyDict == [k \in {} |-> None]

----------------------------------------------------------------------------
(* Python built-ins on str and dict *)

Get(d, k, default) == IF k \in DOMAIN d THEN d[k] ELSE default

\* the truth value of an Optional[str]: None and "" are false
Truthy(v) == v # None /\ v # <<>>

LowerCase == <<"a","b","c","d","e","f","g","h","i","j","k","l","m",
               "n","o","p","q","r","s","t","u","v","w","x","y","z">>
UpperCase == <<"A","B","C","D","E","F","G","H","I","J","K","L","M",
               "N","O","P","Q","R","S","T","U","V","W","X","Y","Z">>
Digits == {"0","1","2","3","4","5","6","7","8","9"}
Whitespace == {" "}

Range(f) == {f[i] : i \in DOMAIN f}

UpperChar(c) ==
    IF c \in Range(LowerCase)
    THEN UpperCase[CHOOSE i \in DOMAIN LowerCase : LowerCase[i] = c]
    ELSE c

LowerChar(c) ==
    IF c \in Range(UpperCase)
    THEN LowerCase[CHOOSE i \in DOMAIN UpperCase : UpperCase[i] = c]
    ELSE c

upper(s) == [i \in 1..Len(s) |-> UpperChar(s[i])]
lower(s) == [i \in 1..Len(s) |-> LowerChar(s[i])]

isalnum(c) == c \in Range(LowerCase) \cup Range(UpperCase) \cup Digits

\* s[:n]
Prefix(s, n) == SubSeq(s, 1, IF n < Len(s) THEN n ELSE Len(s))

\* a in b
In(a, b) == \E i \in 0..(Len(b) - Len(a)) : SubSeq(b, i + 1, i + Len(a)) = a

\* s.replace(pat, ""), pat non-empty: leftmost non-overlapping occurrences
RECURSIVE RemoveAll(_, _)
RemoveAll(s, pat) ==
    IF Len(s) < Len(pat) THEN s
    ELSE IF SubSeq(s, 1, Len(pat)) = pat
         THEN RemoveAll(SubSeq(s, Len(pat) + 1, Len(s)), pat)
         ELSE <<Head(s)>> \o RemoveAll(Tail(s), pat)

RECURSIVE LStrip(_)
LStrip(s) == IF s # <<>> /\ Head(s) \in Whitespace THEN LStrip(Tail(s)) ELSE s

RECURSIVE RStrip(_)
RStrip(s) ==
    IF s # <<>> /\ s[Len(s)] \in Whitespace THEN RStrip(SubSeq(s, 1, Len(s) - 1)) ELSE s

strip(s) == RStrip(LStrip(s))

\* s.split(): the maximal runs of non-whitespace characters, in order
RECURSIVE SplitFrom(_, _)
SplitFrom(s, cur) ==
    IF s = <<>> THEN (IF cur = <<>> THEN <<>> ELSE <<cur>>)
    ELSE IF Head(s) \in Whitespace
         THEN (IF cur = <<>> THEN <<>> ELSE <<cur>>) \o SplitFrom(Tail(s), <<>>)
         ELSE SplitFrom(Tail(s), Append(cur, Head(s)))

split(s) == SplitFrom(s, <<>>)

\* ''.join(c for c in s if c.isalnum())
RECURSIVE KeepAlnum(_)
KeepAlnum(s) ==
    IF s = <<>> THEN <<>>
    ELSE (IF isalnum(Head(s)) THEN <<Head(s)>> ELSE <<>>) \o KeepAlnum(Tail(s))

\* round(p/q) to the nearest integer, ties to even (Python's round)
RoundHalfEven(p, q) ==
    LET f == p \div q
        r == p % q
    IN  IF 2 * r < q THEN f
        ELSE IF 2 * r > q THEN f + 1
        ELSE IF f % 2 = 0 THEN f ELSE f + 1

Min(a, b) == IF a < b THEN a ELSE b
Max(a, b) == IF a > b THEN a ELSE b

----------------------------------------------------------------------------
(* src/rag_pipeline/retriever.py.  The backend's answer to one search      *)
(* (QdrantStore.search behind OpenAIEmbedder.embed_text) is                *)
(* [raised |-> TRUE], or [raised |-> FALSE, hits |-> <<...>>] with the     *)
(* hits in rank order, each [id, score, text, metadata].                   *)

Metadata(r) == Get(r, "metadata", EmptyDict)

NoRelevantInformation == [sentinel |-> "No relevant information found."]

\* f"{score:.2f}": the score to two decimals, as hundredths
Format2f(score) == RoundHalfEven(score, 10)

\* one "[i] (Source: X, Relevance: score)\ntext\n" part of a context
ContextPart(i, r) ==
    [rank |-> i,
     source |-> Get(Metadata(r), "source", "Unknown"),
     relevance |-> Format2f(Get(r, "score", 0)),
     text |-> Get(r, "text", "")]

\* Seeded fault: an empty context for no results, the sentinel forgotten
_build_context_NoSentinel(rs) == [j \in 1..Len(rs) |-> ContextPart(j, rs[j])]

\* RAGRetriever._build_context: the parts that "\n".join concatenates, or the
\* sentinel alone
_build_context(rs) ==
    IF rs = <<>> THEN <<NoRelevantInformation>>
    ELSE [i \in 1..Len(rs) |-> ContextPart(i, rs[i])]

\* RAGRetriever.retrieve, steps 3 and 4 (query and top_k, passed through to
\* the output, are left out)
RAGRetriever_retrieve(hits, min_score) ==
    LET filtered_results == SelectSeq(hits, LAMBDA r : r.score >= min_score)
    IN  [total_results |-> Len(filtered_results),
         results |-> filtered_results,
         context |-> _build_context(filtered_results)]

\* RAGRetriever.retrieve with min_score = 0.0, as retrieve_with_metadata
\* calls it
retrieve(hits) == RAGRetriever_retrieve(hits, 0)

\* search_manuals_rag on a backend that answered (query, a pass-through, is
\* left out); when the backend raised, the exception passes through to the caller
search_manuals_rag(hits) ==
    LET result == retrieve(hits)
    IN  [status |-> "success",
         found_information |-> result.total_results > 0,
         context |-> result.context,
         results |-> result.results,
         source |-> "RAG System (Qdrant + OpenAI)",
         num_results |-> result.total_results]

----------------------------------------------------------------------------
(* src/tools.py: _check_model_appliance_type *)

\* lines 57, 63, 85: x.replace("**", "").replace("*", "").strip()
CleanModel(s) == strip(RemoveAll(RemoveAll(s, <<"*", "*">>), <<"*">>))

\* lines 61-64: the candidate's cleaned model, score and lowercased type
ResultModelClean(r) == CleanModel(upper(Get(Metadata(r), "model_number", <<>>)))
ResultScore(r) == Get(r, "score", 0)
ResultType(r) == lower(Get(Metadata(r), "appliance_type", <<>>))

\* lines 67-80: the first pass's test of one candidate
FirstPassMatch(user_model_clean, r) ==
    LET result_model_clean == ResultModelClean(r)
        min_len == Min(Len(user_model_clean), Len(result_model_clean))
    IN  \/ user_model_clean = result_model_clean
        \/ /\ ResultScore(r) > 500
           /\ Len(result_model_clean) >= 6
           /\ min_len >= 6
           /\ Prefix(user_model_clean, min_len) = Prefix(result_model_clean, min_len)

\* lines 94-99: the number of leading positions on which a and b agree
RECURSIVE MatchingChars(_, _)
MatchingChars(a, b) ==
    IF a = <<>> \/ b = <<>> \/ Head(a) # Head(b) THEN 0
    ELSE 1 + MatchingChars(Tail(a), Tail(b))

\* lines 89-103: the second pass's test of one candidate
SecondPassMatch(user_model_clean, r) ==
    LET result_model_clean == ResultModelClean(r)
        min_len == Min(Len(user_model_clean), Len(result_model_clean))
    IN  /\ ResultScore(r) > 400
        /\ Len(result_model_clean) >= 6
        /\ min_len >= 6
        /\ 10 * MatchingChars(user_model_clean, result_model_clean) >= 8 * min_len

\* lines 60-80: the index of the candidate the first pass returns at, 0 if none
FirstPassIndex(rs, user_model_clean) ==
    LET hit == {i \in 1..Len(rs) : FirstPassMatch(user_model_clean, rs[i])}
    IN  IF hit = {} THEN 0 ELSE CHOOSE i \in hit : \A j \in hit : i <= j

\* lines 83-103: the index of the candidate the second pass returns at, 0 if none
SecondPassIndex(rs, user_model_clean) ==
    LET hit == {i \in 1..Len(rs) : SecondPassMatch(user_model_clean, rs[i])}
    IN  IF hit = {} THEN 0 ELSE CHOOSE i \in hit : \A j \in hit : i <= j

\* Seeded fault: the 80%-prefix pass consulted before the exact and
\* full-prefix pass
_check_model_appliance_type_SecondPassFirst(model, resp) ==
    IF resp.raised THEN None
    ELSE LET result == search_manuals_rag(resp.hits)
             user_model_clean == CleanModel(upper(model))
             i1 == FirstPassIndex(result.results, user_model_clean)
             i2 == SecondPassIndex(result.results, user_model_clean)
         IN  IF result.results = <<>> THEN None
             ELSE IF i2 # 0 THEN ResultType(result.results[i2])
             ELSE IF i1 # 0 THEN ResultType(result.results[i1])
             ELSE None

\* lines 42-108.  resp is the backend's answer to search_manuals_rag(
\* query=user_model, top_k=10, brand=user_brand, product_type=None).
\* Returns a str, or None.
_check_model_appliance_type(model, resp) ==
    IF resp.raised THEN None
    ELSE LET result == search_manuals_rag(resp.hits)
             user_model_clean == CleanModel(upper(model))
             i1 == FirstPassIndex(result.results, user_model_clean)
             i2 == SecondPassIndex(result.results, user_model_clean)
         IN  IF result.results = <<>> THEN None
             ELSE IF i1 # 0 THEN ResultType(result.results[i1])
             ELSE IF i2 # 0 THEN ResultType(result.results[i2])
             ELSE None

----------------------------------------------------------------------------
(* src/tools.py: calculate_accuracy_score *)

\* lines 129-133
NoInformationScore ==
    [accuracy |-> 0, level |-> "No Information",
     breakdown |-> [similarity |-> 0, model_match |-> 0, brand_match |-> 0]]

\* Seeded fault: expected_type reported as the caller wrote it, not lowercased,
\* and the user's model dropped from the error
WrongApplianceScore_Raw(model, actual_type, user_type_lower) ==
    [accuracy |-> 0, level |-> "Wrong Appliance Type",
     breakdown |-> [similarity |-> 0, model_match |-> 0, brand_match |-> 0],
     error |-> "appliance_type_mismatch",
     detected_model_type |-> actual_type,
     expected_type |-> user_type_lower]

\* lines 144-153 (error_message, a formatting of the same three values, is left out)
WrongApplianceScore(model, actual_type, user_type_lower) ==
    [accuracy |-> 0, level |-> "Wrong Appliance Type",
     breakdown |-> [similarity |-> 0, model_match |-> 0, brand_match |-> 0],
     error |-> "appliance_type_mismatch",
     detected_model_type |-> actual_type,
     expected_type |-> user_type_lower,
     user_model |-> model]

\* Seeded fault: fail closed, a lookup that raised counts as a mismatch
MismatchType_FailClosed(model, atype, resp) ==
    IF Truthy(model) /\ Truthy(atype)
    THEN IF resp.raised THEN <<"u","n","k","n","o","w","n">>
         ELSE LET actual_type == _check_model_appliance_type(model, resp)
              IN  IF Truthy(actual_type) /\ actual_type # lower(atype)
                  THEN actual_type ELSE None
    ELSE None

\* Seeded fault: the lookup made, and its type reported, without a claimed type
MismatchType_NoTypeNeeded(model, atype, resp) ==
    IF Truthy(model)
    THEN LET actual_type == _check_model_appliance_type(model, resp)
         IN  IF Truthy(actual_type) /\ (~Truthy(atype) \/ actual_type # lower(atype))
             THEN actual_type ELSE None
    ELSE None

\* lines 136-142: the type reported as mismatching, None when scoring goes on
MismatchType(model, atype, resp) ==
    IF Truthy(model) /\ Truthy(atype)
    THEN LET actual_type == _check_model_appliance_type(model, resp)
         IN  IF Truthy(actual_type) /\ actual_type # lower(atype)
             THEN actual_type ELSE None
    ELSE None

\* line 156: the 3 of results[:min(3, len(results))]
TopN == 3

\* Seeded fault: every result averaged, not the first three
TopResults_All(rs) == rs

\* line 156: results[:min(3, len(results))]
TopResults(rs) == SubSeq(rs, 1, Min(TopN, Len(rs)))

\* line 157: sum(r.get("score", 0) for r in top_results), in thousandths
RECURSIVE SumScores(_)
SumScores(rs) ==
    IF rs = <<>> THEN 0 ELSE Get(Head(rs), "score", 0) + SumScores(Tail(rs))

\* Seeded fault: the scan does not stop at a series match
RECURSIVE ModelScan_NoBreakAt80(_, _, _, _, _)
ModelScan_NoBreakAt80(rs, user_model_clean, user_series, i, m) ==
    IF i > Len(rs) THEN m
    ELSE LET result_model == upper(Get(Metadata(rs[i]), "model_number", <<>>))
         IN  IF result_model = <<>>
             THEN ModelScan_NoBreakAt80(rs, user_model_clean, user_series, i + 1, m)
             ELSE IF In(user_model_clean, result_model) \/ In(result_model, user_model_clean)
             THEN 100
             ELSE IF user_series # <<>> /\ In(user_series, result_model)
             THEN ModelScan_NoBreakAt80(rs, user_model_clean, user_series, i + 1, 80)
             ELSE IF \E j \in DOMAIN split(user_model_clean) :
                        /\ Len(split(user_model_clean)[j]) > 3
                        /\ In(split(user_model_clean)[j], result_model)
             THEN ModelScan_NoBreakAt80(rs, user_model_clean, user_series, i + 1, 50)
             ELSE ModelScan_NoBreakAt80(rs, user_model_clean, user_series, i + 1, m)

\* lines 166-179: the scan from candidate i on, model_match being m so far
RECURSIVE ModelScan(_, _, _, _, _)
ModelScan(rs, user_model_clean, user_series, i, m) ==
    IF i > Len(rs) THEN m
    ELSE LET result_model == upper(Get(Metadata(rs[i]), "model_number", <<>>))
         IN  IF result_model = <<>>
             THEN ModelScan(rs, user_model_clean, user_series, i + 1, m)
             ELSE IF In(user_model_clean, result_model) \/ In(result_model, user_model_clean)
             THEN 100
             ELSE IF user_series # <<>> /\ In(user_series, result_model)
             THEN 80
             ELSE IF \E j \in DOMAIN split(user_model_clean) :
                        /\ Len(split(user_model_clean)[j]) > 3
                        /\ In(split(user_model_clean)[j], result_model)
             THEN ModelScan(rs, user_model_clean, user_series, i + 1, 50)
             ELSE ModelScan(rs, user_model_clean, user_series, i + 1, m)

\* Seeded fault: no token rule, a candidate holding a token of the user's
\* model scores nothing
ModelMatch_NoTokenRule(rs, model) ==
    IF Truthy(model)
    THEN LET user_model_clean == strip(RemoveAll(upper(model), <<"*">>))
             user_series == KeepAlnum(Prefix(user_model_clean, 8))
             scanned == ModelScan(rs, user_model_clean, user_series, 1, 0)
         IN  IF scanned = 50 THEN 0 ELSE scanned
    ELSE 0

\* lines 160-179
ModelMatch(rs, model) ==
    IF Truthy(model)
    THEN LET user_model_clean == strip(RemoveAll(upper(model), <<"*">>))
             user_series == KeepAlnum(Prefix(user_model_clean, 8))
         IN  ModelScan(rs, user_model_clean, user_series, 1, 0)
    ELSE 0

\* lines 186-195: does this candidate's brand match the user's
BrandHit(user_brand_upper, r) ==
    LET result_brand == upper(Get(Metadata(r), "brand", <<>>))
    IN  /\ result_brand # <<>>
        /\ \/ In(user_brand_upper, result_brand)
           \/ In(result_brand, user_brand_upper)
           \/ \E j \in DOMAIN split(user_brand_upper) :
                  In(split(user_brand_upper)[j], result_brand)

\* lines 202-213: does this candidate's brand fit the model's naming
InferHit(model_upper, r) ==
    LET result_brand == upper(Get(Metadata(r), "brand", <<>>))
    IN  /\ result_brand # <<>>
        /\ \/ /\ In(<<"S","A","M","S","U","N","G">>, result_brand)
              /\ \/ In(<<"R","S">>, model_upper)
                 \/ In(<<"R","F">>, model_upper)
                 \/ In(<<"M","C">>, model_upper)
           \/ /\ In(<<"L","G">>, result_brand)
              /\ \/ In(<<"L","R","M">>, model_upper)
                 \/ In(<<"L","F","X">>, model_upper)
           \/ /\ In(<<"G","E">>, result_brand)
              /\ \/ In(<<"G","N","E">>, model_upper)
                 \/ In(<<"G","T","E">>, model_upper)

\* lines 182-195
ExplicitBrandMatch(rs, brand) ==
    IF Truthy(brand) /\ \E i \in 1..Len(rs) : BrandHit(upper(brand), rs[i])
    THEN 100 ELSE 0

\* Seeded fault: inference also when a brand was supplied and matched nothing
BrandMatch_AlwaysInfer(rs, brand, model) ==
    LET explicit == ExplicitBrandMatch(rs, brand)
    IN  IF explicit = 0 /\ Truthy(model)
           /\ \E i \in 1..Len(rs) : InferHit(upper(model), rs[i])
        THEN 80
        ELSE explicit

\* lines 182-213
BrandMatch(rs, brand, model) ==
    LET explicit == ExplicitBrandMatch(rs, brand)
    IN  IF explicit = 0 /\ ~Truthy(brand) /\ Truthy(model)
           /\ \E i \in 1..Len(rs) : InferHit(upper(model), rs[i])
        THEN 80
        ELSE explicit

\* lines 218-222, exactly: accuracy = AccuracyNum / AccuracyDen, where
\* avg_similarity = 100 * (s / 1000) / n for the sum s of n scores

\* Seeded fault: the weights of model_match and brand_match exchanged
AccuracyNum_Swapped(s, n, m, b) == 55 * s + 200 * n * m + 250 * n * b

\* Seeded fault: weights that sum to more than 1
AccuracyNum_Heavy(s, n, m, b) == 65 * s + 250 * n * m + 200 * n * b

\* lines 218-222: the numerator
AccuracyNum(s, n, m, b) == 55 * s + 250 * n * m + 200 * n * b
AccuracyDen(n) == 1000 * n

\* lines 225-234, on accuracy = num / den
AccuracyLevel(num, den) ==
    IF num >= 90 * den THEN "Very High"
    ELSE IF num >= 75 * den THEN "High"
    ELSE IF num >= 60 * den THEN "Medium"
    ELSE IF num >= 40 * den THEN "Low"
    ELSE "Very Low"

\* lines 155-244
ComponentScore(rs, model, brand) ==
    LET n == Len(TopResults(rs))
        s == SumScores(TopResults(rs))
        m == ModelMatch(rs, model)
        b == BrandMatch(rs, brand, model)
        num == AccuracyNum(s, n, m, b)
        den == AccuracyDen(n)
    IN  [accuracy |-> RoundHalfEven(10 * num, den),
         level |-> AccuracyLevel(num, den),
         breakdown |-> [similarity |-> RoundHalfEven(s, n),
                        model_match |-> m,
                        brand_match |-> b]]

\* Seeded fault: the mismatch check made before the emptiness check
calculate_accuracy_score_MismatchFirst(rs, model, brand, atype, resp) ==
    IF MismatchType(model, atype, resp) # None
    THEN WrongApplianceScore(model, MismatchType(model, atype, resp), lower(atype))
    ELSE IF rs = <<>> THEN NoInformationScore
    ELSE ComponentScore(rs, model, brand)

\* lines 111-244.  resp is the answer the auxiliary lookup gets if it is made.
calculate_accuracy_score(rs, model, brand, atype, resp) ==
    IF rs = <<>> THEN NoInformationScore
    ELSE IF MismatchType(model, atype, resp) # None
    THEN WrongApplianceScore(model, MismatchType(model, atype, resp), lower(atype))
    ELSE ComponentScore(rs, model, brand)

----------------------------------------------------------------------------
(* src/tools.py: search_samsung_manuals_rag *)

\* [r for r in all_results if r.get("score", 0) >= threshold]
AtLeast(rs, threshold) == SelectSeq(rs, LAMBDA r : Get(r, "score", 0) >= threshold)

\* line 299: max(0.5, min_similarity - 0.15)
FallbackThreshold(min_sim) == Max(500, min_sim - 150)

\* Seeded fault: no retry at the relaxed threshold
FilteredResults_StrictOnly(all_results, min_sim) == AtLeast(all_results, min_sim)

\* lines 288-304: the filtered_results the function ends with
FilteredResults(all_results, min_sim) ==
    IF AtLeast(all_results, min_sim) # <<>>
    THEN AtLeast(all_results, min_sim)
    ELSE AtLeast(all_results, FallbackThreshold(min_sim))

\* Seeded fault: the filtered results returned whole, not cut to top_k
FinalResults_Uncut(all_results, k, min_sim) ==
    IF FilteredResults(all_results, min_sim) # <<>>
    THEN FilteredResults(all_results, min_sim)
    ELSE Prefix(all_results, k)

\* Seeded fault: no fallback to the unfiltered top results
FinalResults_NoUnfiltered(all_results, k, min_sim) ==
    Prefix(FilteredResults(all_results, min_sim), k)

\* lines 294-304
FinalResults(all_results, k, min_sim) ==
    IF FilteredResults(all_results, min_sim) # <<>>
    THEN Prefix(FilteredResults(all_results, min_sim), k)
    ELSE Prefix(all_results, k)

\* Seeded fault: a failed search answered as a search without matches
search_samsung_manuals_rag_FailOpen(k, model, brand, atype, min_sim, main, resp) ==
    IF main.raised
    THEN [raised |-> FALSE,
          status |-> "success",
          source |-> "RAG System (Qdrant + OpenAI)",
          context |-> <<NoRelevantInformation>>,
          results |-> <<>>,
          num_results |-> 0,
          found_information |-> FALSE,
          min_similarity_threshold |-> min_sim,
          filtered_count |-> 0,
          accuracy_score |-> NoInformationScore]
    ELSE LET result == search_manuals_rag(main.hits)
             final_results == FinalResults(result.results, k, min_sim)
         IN  [raised |-> FALSE,
              status |-> result.status,
              source |-> result.source,
              context |-> IF final_results # <<>>
                          THEN [i \in 1..Len(final_results) |->
                                    ContextPart(i, final_results[i])]
                          ELSE result.context,
              results |-> final_results,
              num_results |-> Len(final_results),
              found_information |-> Len(final_results) > 0,
              min_similarity_threshold |-> min_sim,
              filtered_count |-> Len(FilteredResults(result.results, min_sim)),
              accuracy_score |->
                  calculate_accuracy_score(final_results, model, brand, atype, resp)]

\* lines 276-334.  main and resp are the backend's answers to the main search
\* (top_k * 3 hits asked for) and to the auxiliary lookup.
search_samsung_manuals_rag(k, model, brand, atype, min_sim, main, resp) ==
    IF main.raised THEN [raised |-> TRUE]
    ELSE LET result == search_manuals_rag(main.hits)
             final_results == FinalResults(result.results, k, min_sim)
         IN  [raised |-> FALSE,
              status |-> result.status,
              source |-> result.source,
              context |-> IF final_results # <<>>
                          THEN [i \in 1..Len(final_results) |->
                                    ContextPart(i, final_results[i])]
                          ELSE result.context,
              results |-> final_results,
              num_results |-> Len(final_results),
              found_information |-> Len(final_results) > 0,
              min_similarity_threshold |-> min_sim,
              filtered_count |-> Len(FilteredResults(result.results, min_sim)),
              accuracy_score |->
                  calculate_accuracy_score(final_results, model, brand, atype, resp)]

----------------------------------------------------------------------------
(* The strings the calls are made with, as character sequences *)

RS28A5F61 == <<"R","S","2","8","A","5","F","6","1">>
RS28A5F6X == <<"R","S","2","8","A","5","F","6","X">>
RS28A5_99 == <<"R","S","2","8","A","5"," ","9","9">>
rs28a5f61_star == <<"r","s","2","8","a","5","f","6","1","*"," ">>
rs28a5f62 == <<"r","s","2","8","a","5","f","6","2">>
RS28 == <<"R","S","2","8">>
RF28_HMEDBSR == <<"R","F","2","8"," ","H","M","E","D","B","S","R">>
HMEDBSR_2 == <<"H","M","E","D","B","S","R","-","2">>
Star == <<"*">>
RF28 == <<"R","F","2","8">>
LFX26 == <<"L","F","X","2","6">>
GTE18 == <<"G","T","E","1","8">>
WD53DBA900H == <<"W","D","5","3","D","B","A","9","0","0","H">>
WD53DBA9_stars == <<"W","D","5","3","D","B","A","9","*","*">>
WD53DBA9H == <<"W","D","5","3","D","B","A","9","H">>
Samsung == <<"S","a","m","s","u","n","g">>
samsung == <<"s","a","m","s","u","n","g">>
Samsung_Inc == <<"S","a","m","s","u","n","g"," ","I","n","c">>
SAMSUNG_CO == <<"S","A","M","S","U","N","G"," ","C","O">>
LG == <<"L","G">>
GE == <<"G","E">>
Bosch == <<"B","o","s","c","h">>
Fridge == <<"F","r","i","d","g","e">>
FRIDGE == <<"F","R","I","D","G","E">>
fridge == <<"f","r","i","d","g","e">>
washer == <<"w","a","s","h","e","r">>
Washer == <<"W","a","s","h","e","r">>
refrigerator == <<"r","e","f","r","i","g","e","r","a","t","o","r">>

----------------------------------------------------------------------------
(* src/rag_pipeline/retriever.py, src/rag_pipeline/vector_store.py: what a  *)
(* search asks of the index.  A call of RAGRetriever.retrieve is recorded  *)
(* as [top_k, filters]; filters is a dict or NoFilters (None).             *)

NoFilters == [no_filters |-> TRUE]

\* an argument the caller left to its default
Omitted == <<"omitted">>

\* Seeded fault: every filter key set, supplied or not
retrieve_with_metadata_AllKeys(top_k_arg, brand, product_type, model) ==
    [top_k |-> top_k_arg,
     filters |-> [brand |-> brand, appliance_type |-> product_type,
                  model_number |-> model]]

\* retrieve_with_metadata lines 122-133: the filters handed to retrieve
retrieve_with_metadata(top_k_arg, brand, product_type, model) ==
    LET arg == [brand |-> brand, appliance_type |-> product_type,
                model_number |-> model]
        keys == {k \in DOMAIN arg : Truthy(arg[k])}
    IN  [top_k |-> top_k_arg,
         filters |-> IF keys = {} THEN NoFilters ELSE [k \in keys |-> arg[k]]]

\* search_manuals_rag lines 137-162: the retrieval it asks for; brand defaults
\* to "Samsung" and product_type to "refrigerator", no model is passed
search_manuals_rag_request(top_k_arg, brand, product_type) ==
    retrieve_with_metadata(top_k_arg,
                           IF brand = Omitted THEN Samsung ELSE brand,
                           IF product_type = Omitted THEN refrigerator ELSE product_type,
                           None)

\* QdrantStore.search lines 150-161: the conditions of the query filter, one
\* FieldCondition(key, MatchValue(value)) per filter; none: query_filter=None
QueryFilter(filters) ==
    IF filters = NoFilters THEN {}
    ELSE {[key |-> k, match |-> filters[k]] : k \in DOMAIN filters}

\* tools.py lines 47-52: the auxiliary lookup's retrieval
AuxRequest(brand) == search_manuals_rag_request(10, brand, None)

\* tools.py lines 128-140: the retrievals one call of calculate_accuracy_score makes
ScoreRequests(rs, model, brand, atype) ==
    IF rs # <<>> /\ Truthy(model) /\ Truthy(atype) THEN <<AuxRequest(brand)>> ELSE <<>>

\* tools.py lines 277-329: the retrievals one call of search_samsung_manuals_rag makes
SearchRequests(k, model, brand, atype, min_sim, main) ==
    <<search_manuals_rag_request(k * 3, brand, atype)>> \o
    (IF main.raised THEN <<>>
     ELSE ScoreRequests(FinalResults(search_manuals_rag(main.hits).results, k, min_sim),
                        model, brand, atype))

----------------------------------------------------------------------------
(* Bounds *)

MaxResults == 4    \* longest results list passed to calculate_accuracy_score
MaxAux == 2        \* most hits in the answer to the auxiliary lookup
MaxTopK == 2       \* largest top_k passed to search_samsung_manuals_rag
MaxFetched == 4    \* most hits in the answer to the main search

\* the sequences over S of length lo..hi
SeqsOf(S, lo, hi) == UNION {[1..n -> S] : n \in lo..hi}

\* hits as a backend ranks them: by descending score
Ranked(hits) == \A i \in 1..(Len(hits) - 1) : hits[i].score >= hits[i + 1].score

----------------------------------------------------------------------------
(* Calls of calculate_accuracy_score.  Its arguments are drawn from five   *)
(* families, each varying what one part of the function reads.             *)

\* Similarity scores, in thousandths.  On every list of them (of which the
\* first three are read) neither round(accuracy, 1) nor round(avg_similarity, 1) is an exact
\* decimal tie, where the source's binary floating point would decide by
\* representation error; on this set the exact arithmetic below returns what
\* the source returns.
NumScores == {0, 618, 818, 840, 880, 920, 1000}

SamsungFridge == [model_number |-> RS28A5F61, brand |-> Samsung]

\* results whose scores vary (a result may hold no score)
NumCandidates ==
    {[metadata |-> SamsungFridge]}
        \cup {[score |-> s, metadata |-> SamsungFridge] : s \in NumScores}

\* (user_model, user_brand) pairs giving the model_match/brand_match values
\* 0/0, 100/100, 80/80, 100/0, 0/100, 50/80, 50/100 on SamsungFridge
NumUsers ==
    {<<None, None>>, <<RS28A5F61, Samsung>>, <<RS28A5F6X, None>>, <<RS28A5F61, LG>>,
     <<None, Samsung>>, <<RS28A5_99, None>>, <<RS28A5_99, Samsung>>}

NoAnswer == [raised |-> TRUE]

FamilyNum ==
    /\ results \in SeqsOf(NumCandidates, 1, TopN)
    /\ \E u \in NumUsers : user_model = u[1] /\ user_brand = u[2]
    /\ user_appliance_type = None
    /\ aux = NoAnswer

\* results in any order, longer than the three that are averaged
OrderCandidates ==
    {[metadata |-> SamsungFridge]}
        \cup {[score |-> s, metadata |-> SamsungFridge] : s \in {618, 920, 1000}}

FamilyOrder ==
    /\ results \in SeqsOf(OrderCandidates, TopN + 1, MaxResults)
    /\ user_model = RS28A5F61
    /\ user_brand = Samsung
    /\ user_appliance_type = None
    /\ aux = NoAnswer

\* results whose model metadata varies (a result may hold none)
ModelCandidates ==
    {[score |-> 880, metadata |-> [brand |-> Samsung]]}
        \cup {[score |-> 880, metadata |-> [model_number |-> m, brand |-> Samsung]] :
                 m \in {RS28A5F61, rs28a5f62, RS28, HMEDBSR_2}}

FamilyModel ==
    /\ results \in SeqsOf(ModelCandidates, 1, MaxResults)
    /\ user_model \in {None, <<>>, Star, rs28a5f61_star, RF28_HMEDBSR}
    /\ user_brand = Samsung
    /\ user_appliance_type = None
    /\ aux = NoAnswer

\* results whose brand metadata varies (a result may hold none)
BrandCandidates ==
    {[score |-> 880, metadata |-> EmptyDict]}
        \cup {[score |-> 880, metadata |-> [brand |-> b]] : b \in {Samsung, SAMSUNG_CO, LG, GE}}

FamilyBrand ==
    /\ results \in SeqsOf(BrandCandidates, 1, MaxResults)
    /\ user_brand \in {None, <<>>, samsung, Samsung_Inc, Bosch}
    /\ user_model \in {None, RF28, LFX26, GTE18}
    /\ user_appliance_type = None
    /\ aux = NoAnswer

\* hits the auxiliary lookup may find for WD53DBA900H
AuxHits ==
    {[id |-> 1, score |-> 920, text |-> "washer manual",
      metadata |-> [brand |-> Samsung, model_number |-> WD53DBA900H,
                    appliance_type |-> Washer]],
     [id |-> 2, score |-> 920, text |-> "fridge manual",
      metadata |-> [brand |-> Samsung, model_number |-> WD53DBA900H,
                    appliance_type |-> FRIDGE]],
     [id |-> 3, score |-> 880, text |-> "untyped manual",
      metadata |-> [brand |-> Samsung, model_number |-> WD53DBA900H]],
     [id |-> 4, score |-> 618, text |-> "washer series manual",
      metadata |-> [brand |-> Samsung, model_number |-> WD53DBA9_stars,
                    appliance_type |-> washer]],
     [id |-> 5, score |-> 450, text |-> "washer sibling manual",
      metadata |-> [brand |-> Samsung, model_number |-> WD53DBA9H,
                    appliance_type |-> washer]],
     [id |-> 6, score |-> 300, text |-> "washer sibling manual, far",
      metadata |-> [brand |-> Samsung, model_number |-> WD53DBA9H,
                    appliance_type |-> washer]],
     [id |-> 7, score |-> 880, text |-> "other fridge manual",
      metadata |-> [brand |-> Samsung, model_number |-> RS28A5F61,
                    appliance_type |-> fridge]]}

\* the answers of the backend to the auxiliary lookup: an exception, or at
\* most MaxAux distinct hits in rank order
AuxAnswers ==
    {NoAnswer} \cup
    {[raised |-> FALSE, hits |-> h] :
        h \in {l \in SeqsOf(AuxHits, 0, MaxAux) :
                  Ranked(l) /\ \A i, j \in 1..Len(l) : i # j => l[i].id # l[j].id}}

FamilyMismatch ==
    /\ results \in {[i \in 1..n |-> [score |-> 880, metadata |-> SamsungFridge]] :
                       n \in 0..MaxResults}
    /\ user_model \in {None, WD53DBA900H, RS28A5F61}
    /\ user_brand \in {None, Samsung}
    /\ user_appliance_type \in {None, <<>>, Fridge, washer}
    /\ aux \in AuxAnswers

NotReturned == [pending |-> TRUE]

\* no ingestion job is running or has run: an empty collection, the default
\* batch size (embedding.py line 24, vector_store.py line 86) and the default
\* embedding model (embedding.py line 35); no batch of documents, the default
\* size threshold (document_processor.py line 25)
NoJob ==
    /\ index = EmptyDict
    /\ index_before = EmptyDict
    /\ batch_size = 100
    /\ embedding_model = "text-embedding-3-small"
    /\ nodes = <<>>
    /\ all_embeddings = <<>>
    /\ failed_batches = {}
    /\ embedded_docs = <<>>
    /\ embed_stats = NotReturned
    /\ batch_start = 0
    /\ next_id = 0
    /\ runs = 0
    /\ gcs_uris = <<>>
    /\ size_threshold_mb = 20

Init ==
    /\ pc = "call"
    /\ ret = NotReturned
    /\ ret1 = NotReturned
    /\ sent = <<>>
    /\ NoJob
    /\ top_k = 5
    /\ min_similarity = 700
    /\ fetched = [raised |-> FALSE, hits |-> <<>>]
    /\ FamilyNum \/ FamilyOrder \/ FamilyModel \/ FamilyBrand \/ FamilyMismatch

\* one call of calculate_accuracy_score returns
Score ==
    /\ pc = "call"
    /\ pc' = "returned"
    /\ ret' = calculate_accuracy_score(results, user_model, user_brand,
                                       user_appliance_type, aux)
    /\ sent' = sent \o ScoreRequests(results, user_model, user_brand,
                                     user_appliance_type)
    /\ UNCHANGED <<callVars, ret1, ingestVars>>

Next == Score

Spec == Init /\ [][Next]_vars

----------------------------------------------------------------------------
(* Calls of search_samsung_manuals_rag *)

\* the payload of a hit of the main search, which retrieve_with_metadata
\* filters on the brand and the appliance type the caller gave
HitMetadata(brand, atype) ==
    [source |-> "manual.pdf",
     model_number |-> RS28A5F61,
     brand |-> IF Truthy(brand) THEN brand ELSE Samsung,
     appliance_type |-> IF Truthy(atype) THEN atype ELSE fridge]

\* similarity scores of the main search, in thousandths; a cosine similarity
\* may be negative
SearchScores == {-50, 0, 618, 818, 920, 1000}

\* the hits of rank 1..n with the given scores
Hits(scores, brand, atype) ==
    [i \in 1..Len(scores) |->
        [id |-> i, score |-> scores[i], text |-> <<"text of hit", i>>,
         metadata |-> HitMetadata(brand, atype)]]

\* the answers of the backend to the main search for k * 3 hits: an exception,
\* or at most k * 3 (and at most MaxFetched) hits in rank order
MainAnswers(k, brand, atype) ==
    {NoAnswer} \cup
    {[raised |-> FALSE, hits |-> Hits(s, brand, atype)] :
        s \in {l \in SeqsOf(SearchScores, 0, Min(k * 3, MaxFetched)) :
                  \A i \in 1..(Len(l) - 1) : l[i] >= l[i + 1]}}

\* the answers to the auxiliary lookup: an exception, nothing, the user's
\* model in a washer manual, the user's model in a fridge manual
SearchAuxAnswers ==
    {NoAnswer, [raised |-> FALSE, hits |-> <<>>]} \cup
    {[raised |-> FALSE, hits |-> <<h>>] : h \in {a \in AuxHits : a.id \in {1, 2}}}

InitSearch ==
    /\ pc = "call"
    /\ ret = NotReturned
    /\ ret1 = NotReturned
    /\ sent = <<>>
    /\ NoJob
    /\ results = <<>>
    /\ top_k \in 0..MaxTopK
    /\ min_similarity \in {700, 950}
    /\ user_model \in {None, WD53DBA900H, RS28A5F61}
    /\ user_brand \in {None, Samsung}
    /\ user_appliance_type \in {None, Fridge}
    /\ fetched \in MainAnswers(top_k, user_brand, user_appliance_type)
    /\ aux \in SearchAuxAnswers

\* one call of search_samsung_manuals_rag returns, or raises
Search ==
    /\ pc = "call"
    /\ pc' = "returned"
    /\ ret' = search_samsung_manuals_rag(top_k, user_model, user_brand,
                                         user_appliance_type, min_similarity,
                                         fetched, aux)
    /\ sent' = sent \o SearchRequests(top_k, user_model, user_brand,
                                      user_appliance_type, min_similarity, fetched)
    /\ UNCHANGED <<callVars, ret1, ingestVars>>

NextSearch == Search

SpecSearch == InitSearch /\ [][NextSearch]_vars

----------------------------------------------------------------------------
(* Two calls of calculate_accuracy_score with the same arguments, the       *)
(* collection being upserted to between them.  A point of the collection   *)
(* is [id, score, text, metadata], score being the similarity of its       *)
(* vector to the auxiliary lookup's query.                                  *)

MaxUpserts == 2

\* vector_store.py lines 150-161: does the point pass the query filter
PassesFilters(point, filters) ==
    \A c \in QueryFilter(filters) : Get(point.metadata, c.key, None) = c.match

\* vector_store.py lines 164-184: the answers the collection may give to a
\* request: its points passing the filter, by descending score (points of equal
\* score in either order), at most top_k of them
IndexAnswers(idx, req) ==
    LET matching == {idx[id] : id \in {d \in DOMAIN idx : PassesFilters(idx[d], req.filters)}}
        n == Min(req.top_k, Cardinality(matching))
    IN  {l \in SeqsOf(matching, n, n) :
            /\ Ranked(l)
            /\ \A a, b \in 1..n : a # b => l[a].id # l[b].id
            /\ \A q \in matching : (\A a \in 1..n : l[a] # q) =>
                   \A a \in 1..n : l[a].score >= q.score}

\* what search_manuals_rag may answer to the auxiliary lookup on the collection:
\* an exception (embedding or backend failure), or the hits
LookupAnswers(idx, brand) ==
    {NoAnswer} \cup {[raised |-> FALSE, hits |-> l] : l \in IndexAnswers(idx, AuxRequest(brand))}

\* the collection holding the points of P
CollectionOf(P) == [id \in {p.id : p \in P} |-> CHOOSE p \in P : p.id = id]

InitTwice ==
    /\ pc = "first call"
    /\ ret = NotReturned
    /\ ret1 = NotReturned
    /\ sent = <<>>
    /\ index_before = EmptyDict
    /\ batch_size = 100
    /\ embedding_model = "text-embedding-3-small"
    /\ nodes = <<>>
    /\ all_embeddings = <<>>
    /\ failed_batches = {}
    /\ embedded_docs = <<>>
    /\ embed_stats = NotReturned
    /\ batch_start = 0
    /\ next_id = 0
    /\ runs = 0
    /\ gcs_uris = <<>>
    /\ size_threshold_mb = 20
    /\ top_k = 5
    /\ min_similarity = 700
    /\ fetched = [raised |-> FALSE, hits |-> <<>>]
    /\ aux = [raised |-> FALSE, hits |-> <<>>]
    /\ results \in {[n \in 1..len |-> [score |-> 880, metadata |-> SamsungFridge]] :
                       len \in 0..1}
    /\ user_model \in {None, WD53DBA900H}
    /\ user_brand \in {None, Samsung}
    /\ user_appliance_type \in {None, Fridge}
    /\ \E P \in SUBSET AuxHits :
           /\ Cardinality(P) <= MaxAux - 1
           /\ Cardinality({p.id : p \in P}) = Cardinality(P)
           /\ index = CollectionOf(P)

\* the first call returns
ScoreFirst ==
    /\ pc = "first call"
    /\ pc' = "between"
    /\ aux' \in LookupAnswers(index, user_brand)
    /\ ret1' = calculate_accuracy_score(results, user_model, user_brand,
                                        user_appliance_type, aux')
    /\ sent' = sent \o ScoreRequests(results, user_model, user_brand,
                                     user_appliance_type)
    /\ UNCHANGED <<results, user_model, user_brand, user_appliance_type, top_k,
                   min_similarity, fetched, ret, ingestVars>>

\* QdrantClient.upsert of one point between the calls: the point replaces the
\* one of the same id, or is added
UpsertBetween ==
    /\ pc = "between"
    /\ runs < MaxUpserts
    /\ \E p \in AuxHits :
           index' = [id \in DOMAIN index \cup {p.id} |->
                        IF id = p.id THEN p ELSE index[id]]
    /\ runs' = runs + 1
    /\ UNCHANGED <<pc, callVars, ret, ret1, sent, index_before, batch_size,
                   embedding_model, nodes,
                   all_embeddings, failed_batches, embedded_docs, embed_stats,
                   batch_start, next_id,
                   gcs_uris, size_threshold_mb>>

\* the second call, with the same arguments, returns
ScoreAgain ==
    /\ pc = "between"
    /\ pc' = "both returned"
    /\ aux' \in LookupAnswers(index, user_brand)
    /\ ret' = calculate_accuracy_score(results, user_model, user_brand,
                                       user_appliance_type, aux')
    /\ sent' = sent \o ScoreRequests(results, user_model, user_brand,
                                     user_appliance_type)
    /\ UNCHANGED <<results, user_model, user_brand, user_appliance_type, top_k,
                   min_similarity, fetched, ret1, ingestVars>>

NextTwice == ScoreFirst \/ UpsertBetween \/ ScoreAgain

SpecTwice == InitTwice /\ [][NextTwice]_vars

----------------------------------------------------------------------------
(* Calls of RAGRetriever.retrieve, RAGRetriever.retrieve_with_metadata and  *)
(* search_manuals_rag.  pc names the function called; user_brand,           *)
(* user_appliance_type and user_model hold its brand, product_type and      *)
(* model arguments, min_similarity holds min_score.                         *)

\* the retrieval a call asks for
RetrievalRequest ==
    CASE pc = "retrieve" -> [top_k |-> top_k, filters |-> NoFilters]
      [] pc = "retrieve_with_metadata" ->
             retrieve_with_metadata(top_k, user_brand, user_appliance_type, user_model)
      [] pc = "search_manuals_rag" ->
             search_manuals_rag_request(top_k, user_brand, user_appliance_type)

\* the payload of a hit that passes the filters of a request
MatchingMetadata(filters) ==
    [source |-> "manual.pdf",
     model_number |-> Get(filters, "model_number", RS28A5F61),
     brand |-> Get(filters, "brand", Samsung),
     appliance_type |-> Get(filters, "appliance_type", fridge)]

\* the answers of the backend to a request: an exception, or at most top_k
\* (and at most MaxFetched) hits passing the filters, in rank order
RetrievalAnswers(req) ==
    {NoAnswer} \cup
    {[raised |-> FALSE,
      hits |-> [n \in 1..Len(l) |->
                   [id |-> n, score |-> l[n], text |-> <<"text of hit", n>>,
                    metadata |-> MatchingMetadata(req.filters)]]] :
        l \in {l \in SeqsOf(SearchScores, 0, Min(req.top_k, MaxFetched)) :
                  \A n \in 1..(Len(l) - 1) : l[n] >= l[n + 1]}}

InitRetrieve ==
    /\ pc \in {"retrieve", "retrieve_with_metadata", "search_manuals_rag"}
    /\ ret = NotReturned
    /\ ret1 = NotReturned
    /\ sent = <<>>
    /\ NoJob
    /\ results = <<>>
    /\ aux = NoAnswer
    /\ top_k \in 0..(MaxTopK + 1)
    /\ min_similarity \in IF pc = "retrieve" THEN {0, 700, 950} ELSE {0}
    /\ user_brand \in
           CASE pc = "retrieve" -> {None}
             [] pc = "retrieve_with_metadata" -> {None, <<>>, Samsung, LG}
             [] pc = "search_manuals_rag" -> {Omitted, None, <<>>, LG}
    /\ user_appliance_type \in
           CASE pc = "retrieve" -> {None}
             [] pc = "retrieve_with_metadata" -> {None, <<>>, washer}
             [] pc = "search_manuals_rag" -> {Omitted, None, <<>>, washer}
    /\ user_model \in IF pc = "retrieve_with_metadata"
                       THEN {None, <<>>, WD53DBA900H} ELSE {None}
    /\ fetched \in RetrievalAnswers(RetrievalRequest)

\* one call of RAGRetriever.retrieve returns, or raises
Retrieve ==
    /\ pc = "retrieve"
    /\ pc' = "retrieve returned"
    /\ sent' = sent \o <<RetrievalRequest>>
    /\ ret' = IF fetched.raised THEN [raised |-> TRUE]
              ELSE [raised |-> FALSE,
                    output |-> RAGRetriever_retrieve(fetched.hits, min_similarity)]
    /\ UNCHANGED <<callVars, ret1, ingestVars>>

\* one call of RAGRetriever.retrieve_with_metadata returns, or raises
RetrieveWithMetadata ==
    /\ pc = "retrieve_with_metadata"
    /\ pc' = "retrieve_with_metadata returned"
    /\ sent' = sent \o <<RetrievalRequest>>
    /\ ret' = IF fetched.raised THEN [raised |-> TRUE]
              ELSE [raised |-> FALSE, output |-> retrieve(fetched.hits)]
    /\ UNCHANGED <<callVars, ret1, ingestVars>>

\* one call of search_manuals_rag returns, or raises
SearchManuals ==
    /\ pc = "search_manuals_rag"
    /\ pc' = "search_manuals_rag returned"
    /\ sent' = sent \o <<RetrievalRequest>>
    /\ ret' = IF fetched.raised THEN [raised |-> TRUE]
              ELSE [raised |-> FALSE, output |-> search_manuals_rag(fetched.hits)]
    /\ UNCHANGED <<callVars, ret1, ingestVars>>

NextRetrieve == Search \/ Retrieve \/ RetrieveWithMetadata \/ SearchManuals

SpecRetrieve == (InitSearch \/ InitRetrieve) /\ [][NextRetrieve]_vars

----------------------------------------------------------------------------
(* The ingestion job (scripts/ingest_manuals.py): chunk, embed, upsert,     *)
(* and QdrantStore.add_documents called on its own                          *)

MaxChunks == 3     \* most chunks a document is split into
MaxBatch == 2      \* largest batch size of a job
MaxNodeIds == 4    \* most node ids generated by the jobs run one after the other

\* the size of the collection's vectors (vector_store.py line 32, used by
\* create_collection)
embedding_dim == 1536

\* the length of the vectors the embedding service returns for a model
VectorLength(model) == IF model = "text-embedding-3-small" THEN 1536 ELSE 3072

EmbeddingModels == {"text-embedding-3-small", "text-embedding-3-large"}

\* a document is named by the number of chunks the splitter cuts its text into
Documents == 1..MaxChunks

\* the text of the j-th chunk of document d: the splitter is deterministic, the
\* same document gives the same chunk texts
ChunkText(d, j) == <<"chunk", d, j>>

\* an embedding vector: its length and the text it embeds
Vector(len, text) == <<"vector", len, text>>

\* LlamaIndexChunker.chunk_documents on one document: the splitter is given no
\* id function, each node gets a new random uuid (the `first_id`-th and
\* following ids ever generated); the metadata carries the document's source
chunk_documents(d, first_id) ==
    [j \in 1..d |-> [node_id |-> first_id + j,
                     text |-> ChunkText(d, j),
                     metadata |-> [source |-> d]]]

\* l[start : start + size] of Python, start counted from 0
Slice(l, start, size) == SubSeq(l, start + 1, Min(start + size, Len(l)))

\* embed_texts: the embeddings the service returns for a batch, one per text,
\* in order
CreatedEmbeddings(batch, model) ==
    [p \in 1..Len(batch) |-> Vector(VectorLength(model), batch[p])]

FailureMarkers_Dropped(batch) == <<>>

\* embed_texts: the placeholders for a batch whose call raised
FailureMarkers(batch) == [p \in 1..Len(batch) |-> None]

HasEmbedding(doc) == doc.embedding # None

\* embed_nodes: the nodes zipped with their embeddings, those without an
\* embedding left out
embed_nodes(ns, embeddings) ==
    SelectSeq([p \in 1..Min(Len(ns), Len(embeddings)) |->
                  [id |-> ns[p].node_id,
                   text |-> ns[p].text,
                   embedding |-> embeddings[p],
                   metadata |-> ns[p].metadata]],
              HasEmbedding)

IsValidEmbedding(e) == e # None

get_embedding_stats(embeddings, model) ==
    LET valid_embeddings == SelectSeq(embeddings, IsValidEmbedding)
    IN  [total |-> Len(embeddings),
         valid |-> Len(valid_embeddings),
         failed |-> Len(embeddings) - Len(valid_embeddings),
         dimension |-> IF valid_embeddings # <<>> THEN valid_embeddings[1][2] ELSE 0,
         model |-> model]

\* add_documents: the points built from the documents
Points(documents) ==
    [p \in 1..Len(documents) |->
        [id |-> documents[p].id,
         vector |-> documents[p].embedding,
         payload |-> [text |-> documents[p].text,
                      source |-> documents[p].metadata.source]]]

\* QdrantClient.upsert: each point replaces the point of its id or is added;
\* of two points of one id in the batch the later one stays
Upserted(idx, batch) ==
    [id \in DOMAIN idx \cup {batch[p].id : p \in 1..Len(batch)} |->
        IF \E p \in 1..Len(batch) : batch[p].id = id
        THEN LET last == CHOOSE p \in 1..Len(batch) :
                             /\ batch[p].id = id
                             /\ \A q \in p+1..Len(batch) : batch[q].id # id
             IN  batch[last]
        ELSE idx[id]]

\* the positions of a batch whose vector has not the collection's size
Offending(batch) == {p \in 1..Len(batch) : batch[p].vector[2] # embedding_dim}

\* an ingestion job starts on one document: the components are made, the text
\* is extracted and chunked
StartIngest ==
    /\ pc = "ingest idle"
    /\ \E d \in Documents, b \in 1..MaxBatch, m \in EmbeddingModels :
           /\ next_id + d <= MaxNodeIds
           /\ nodes' = chunk_documents(d, next_id)
           /\ next_id' = next_id + d
           /\ batch_size' = b
           /\ embedding_model' = m
    /\ pc' = "embed_texts"
    /\ ret' = NotReturned
    /\ all_embeddings' = <<>>
    /\ failed_batches' = {}
    /\ embedded_docs' = <<>>
    /\ embed_stats' = NotReturned
    /\ batch_start' = 0
    /\ index_before' = index
    /\ runs' = runs + 1
    /\ UNCHANGED <<callVars, sent, ret1, index, gcs_uris, size_threshold_mb>>

\* the texts embed_nodes hands to embed_texts
Texts == [p \in 1..Len(nodes) |-> nodes[p].text]

\* one turn of embed_texts' loop, the call to the service succeeding
EmbedBatch ==
    /\ pc = "embed_texts"
    /\ batch_start < Len(Texts)
    /\ all_embeddings' = all_embeddings \o
           CreatedEmbeddings(Slice(Texts, batch_start, batch_size), embedding_model)
    /\ batch_start' = batch_start + batch_size
    /\ UNCHANGED <<pc, callVars, ret, sent, ret1, index, index_before, batch_size,
                   embedding_model, nodes, failed_batches, embedded_docs,
                   embed_stats, next_id, runs,
                   gcs_uris, size_threshold_mb>>

\* one turn of embed_texts' loop, the call to the service raising
EmbedBatchFails ==
    /\ pc = "embed_texts"
    /\ batch_start < Len(Texts)
    /\ all_embeddings' = all_embeddings \o
           FailureMarkers(Slice(Texts, batch_start, batch_size))
    /\ failed_batches' = failed_batches \cup {batch_start \div batch_size + 1}
    /\ batch_start' = batch_start + batch_size
    /\ UNCHANGED <<pc, callVars, ret, sent, ret1, index, index_before, batch_size,
                   embedding_model, nodes, embedded_docs, embed_stats, next_id,
                   runs,
                   gcs_uris, size_threshold_mb>>

\* embed_texts returns, embed_nodes returns the documents, the job computes the
\* statistics of their embeddings and calls add_documents
EmbedReturn ==
    /\ pc = "embed_texts"
    /\ batch_start >= Len(Texts)
    /\ pc' = "add_documents"
    /\ embedded_docs' = embed_nodes(nodes, all_embeddings)
    /\ embed_stats' = get_embedding_stats(
           [p \in 1..Len(embedded_docs') |-> embedded_docs'[p].embedding],
           embedding_model)
    /\ batch_start' = 0
    /\ UNCHANGED <<callVars, ret, sent, ret1, index, index_before, batch_size,
                   embedding_model, nodes, all_embeddings, failed_batches,
                   next_id, runs,
                   gcs_uris, size_threshold_mb>>

\* one turn of add_documents' loop, the collection accepting the batch
UpsertBatch ==
    /\ pc = "add_documents"
    /\ batch_start < Len(embedded_docs)
    /\ LET batch == Slice(Points(embedded_docs), batch_start, batch_size)
       IN  /\ Offending(batch) = {}
           /\ index' = Upserted(index, batch)
    /\ batch_start' = batch_start + batch_size
    /\ UNCHANGED <<pc, callVars, ret, sent, ret1, index_before, batch_size,
                   embedding_model, nodes, all_embeddings, failed_batches,
                   embedded_docs, embed_stats, next_id, runs,
                   gcs_uris, size_threshold_mb>>

\* one turn of add_documents' loop, the collection refusing a vector of the
\* batch: the request writes nothing, its exception leaves add_documents and
\* the job; the batches upserted before stay
UpsertRejected ==
    /\ pc = "add_documents"
    /\ batch_start < Len(embedded_docs)
    /\ LET batch == Slice(Points(embedded_docs), batch_start, batch_size)
       IN  Offending(batch) # {}
    /\ pc' = "ingest idle"
    /\ ret' = [raised |-> TRUE]
    /\ UNCHANGED <<callVars, sent, ret1, index, index_before, batch_size, embedding_model,
                   nodes, all_embeddings, failed_batches, embedded_docs,
                   embed_stats, batch_start, next_id, runs,
                   gcs_uris, size_threshold_mb>>

\* add_documents returns the number of points, the job ends
UpsertReturn ==
    /\ pc = "add_documents"
    /\ batch_start >= Len(embedded_docs)
    /\ pc' = "ingest idle"
    /\ ret' = [raised |-> FALSE, output |-> Len(Points(embedded_docs))]
    /\ UNCHANGED <<callVars, sent, ret1, ingestVars>>

NoCall ==
    /\ results = <<>>
    /\ user_model = None
    /\ user_brand = None
    /\ user_appliance_type = None
    /\ aux = [raised |-> FALSE, hits |-> <<>>]
    /\ top_k = 5
    /\ min_similarity = 700
    /\ fetched = [raised |-> FALSE, hits |-> <<>>]
    /\ ret = NotReturned
    /\ ret1 = NotReturned
    /\ sent = <<>>

\* before the first job: an empty collection
InitIngest ==
    /\ pc = "ingest idle"
    /\ NoCall
    /\ NoJob

\* the ids of the documents handed to add_documents directly
DocumentIds == {101, 102, 103}

\* the document lists add_documents is called on directly: distinct ids, the
\* embeddings of either length; their texts (source 0) are of no document of
\* the ingestion job
DirectDocuments ==
    UNION {{l \in [1..n -> [id : DocumentIds,
                            text : {ChunkText(0, 1)},
                            embedding : {Vector(VectorLength(m), ChunkText(0, 1)) :
                                            m \in EmbeddingModels},
                            metadata : {[source |-> 0]}]] :
               \A a, b \in 1..n : a < b => l[a].id < l[b].id} :
           n \in 0..MaxChunks}

\* add_documents called on documents of the caller's, on a collection that is
\* empty or holds a point of one of their ids
InitStore ==
    /\ pc = "add_documents"
    /\ NoCall
    /\ embedded_docs \in DirectDocuments
    /\ batch_size \in 1..MaxBatch
    /\ index \in {EmptyDict,
                  Upserted(EmptyDict,
                           <<[id |-> 101,
                              vector |-> Vector(embedding_dim, ChunkText(0, 2)),
                              payload |-> [text |-> ChunkText(0, 2), source |-> 0]]>>)}
    /\ index_before = index
    /\ embedding_model = "text-embedding-3-small"
    /\ nodes = <<>>
    /\ all_embeddings = <<>>
    /\ failed_batches = {}
    /\ embed_stats = NotReturned
    /\ batch_start = 0
    /\ next_id = 0
    /\ runs = 0
    /\ gcs_uris = <<>>
    /\ size_threshold_mb = 20

NextIngest ==
    \/ StartIngest
    \/ EmbedBatch
    \/ EmbedBatchFails
    \/ EmbedReturn
    \/ UpsertBatch
    \/ UpsertRejected
    \/ UpsertReturn

SpecIngest == (InitIngest \/ InitStore) /\ [][NextIngest]_vars

----------------------------------------------------------------------------
(* A search running while add_documents is at work *)

\* the elements of a finite set of numbers in increasing order
RECURSIVE Ascending(_)
Ascending(S) ==
    IF S = {} THEN <<>>
    ELSE LET least == CHOOSE x \in S : \A y \in S : x <= y
         IN  <<least>> \o Ascending(S \ {least})

\* QdrantStore.search, lines 164-184, asked for at least as many hits as the
\* collection holds and without a filter: every point, formatted; the hits are
\* listed by id, their scores and ranking are left out
SearchAll(idx) ==
    LET ids == Ascending(DOMAIN idx)
    IN  [n \in 1..Len(ids) |->
            [id |-> idx[ids[n]].id,
             text |-> idx[ids[n]].payload.text,
             metadata |-> [source |-> idx[ids[n]].payload.source]]]

\* a search of another process between two turns of add_documents' loop
SearchDuring ==
    /\ pc = "add_documents"
    /\ fetched' = [raised |-> FALSE, hits |-> SearchAll(index)]
    /\ UNCHANGED <<pc, results, user_model, user_brand, user_appliance_type, aux,
                   top_k, min_similarity, ret, sent, ret1, ingestVars>>

NextConcurrent == NextIngest \/ SearchDuring

SpecConcurrent == InitIngest /\ [][NextConcurrent]_vars

----------------------------------------------------------------------------
(* src/rag_pipeline/document_processor.py: DocumentProcessor and            *)
(* process_directory.  A file is [size, docling, pymupdf, download]: its    *)
(* size in bytes, what each extractor does on it ("text": it returns text,  *)
(* "empty": it returns no text, "raises") and what its download from GCS    *)
(* does ("ok", "raises").  The i-th locator of a list is named i.           *)

MaxUris == 2       \* most locators in a batch

\* line 36
size_threshold_bytes(mb) == mb * 1024 * 1024

\* Seeded fault: a file of exactly the threshold size routed to Docling
_should_use_docling_AtThreshold(file_size, mb) == file_size <= size_threshold_bytes(mb)

\* lines 67-74
_should_use_docling(file_size, mb) == file_size < size_threshold_bytes(mb)

\* the text an extractor returns on a file it does not raise on: Docling's
\* markdown export, PyMuPDF's joined page texts
Markdown == <<"#"," ","t">>
PageText == <<"t">>

\* lines 120, 313: the local path of the i-th locator
LocalPath(i) == <<"path", i>>

\* lines 156-184 (pages, page_count, file_name and file_hash are left out)
_process_with_docling(f, file_path) ==
    [text |-> IF f.docling = "text" THEN Markdown ELSE <<>>,
     file_path |-> file_path,
     metadata |-> [source |-> file_path,
                   file_size |-> f.size,
                   processor |-> "docling"]]

\* lines 186-219 (the same fields are left out)
_process_with_pymupdf(f, file_path) ==
    [text |-> IF f.pymupdf = "text" THEN PageText ELSE <<>>,
     file_path |-> file_path,
     metadata |-> [source |-> file_path,
                   file_size |-> f.size,
                   processor |-> "pymupdf"]]

\* lines 147-154: the extractor chosen raises
LocalRaises(f, mb) ==
    IF _should_use_docling(f.size, mb) THEN f.docling = "raises" ELSE f.pymupdf = "raises"

\* lines 147-154, on a file the chosen extractor does not raise on
process_local_document(f, file_path, mb) ==
    IF _should_use_docling(f.size, mb)
    THEN _process_with_docling(f, file_path)
    ELSE _process_with_pymupdf(f, file_path)

\* lines 123-126: the download or the extraction raises
GcsRaises(f, mb) == f.download = "raises" \/ LocalRaises(f, mb)

\* lines 116-129, when nothing raises
process_gcs_document(f, i, mb) ==
    [gcs_uri |-> i] @@ process_local_document(f, LocalPath(i), mb)

\* str(e) of the exception that left process_gcs_document or
\* process_local_document
ErrorText(f, mb) ==
    IF f.download = "raises" THEN "download failed"
    ELSE IF _should_use_docling(f.size, mb) THEN "docling failed"
    ELSE "pymupdf failed"

\* Seeded fault: every record without an error counted as a success
SuccessCount_NoError(rs) == Cardinality({i \in 1..Len(rs) : "error" \notin DOMAIN rs[i]})

\* line 256: the records with a true text
SuccessCount(rs) == Cardinality({i \in 1..Len(rs) : Truthy(rs[i].text)})
\* line 257: the records without a true text
FailedCount(rs) == Cardinality({i \in 1..Len(rs) : ~Truthy(rs[i].text)})

\* the sizes around the default threshold
FileSizes == {size_threshold_bytes(20) + d : d \in {-1, 0, 1}}

\* the files whose download succeeds, and one whose download raises
Files ==
    [size : FileSizes, docling : {"text", "empty", "raises"},
     pymupdf : {"text", "empty", "raises"}, download : {"ok"}]
    \cup {[size |-> size_threshold_bytes(20), docling |-> "text", pymupdf |-> "text",
           download |-> "raises"]}

InitProcess ==
    /\ NoCall
    /\ index = EmptyDict
    /\ index_before = EmptyDict
    /\ batch_size = 100
    /\ embedding_model = "text-embedding-3-small"
    /\ nodes = <<>>
    /\ all_embeddings = <<>>
    /\ failed_batches = {}
    /\ embedded_docs = <<>>
    /\ embed_stats = NotReturned
    /\ batch_start = 0
    /\ next_id = 0
    /\ runs = 0
    /\ \/ /\ pc = "batch_process_documents"
          /\ gcs_uris \in SeqsOf(Files, 0, MaxUris)
          /\ size_threshold_mb \in {1, 20}
       \/ /\ pc = "process_directory"
          /\ gcs_uris \in SeqsOf({f \in Files : f.download = "ok"}, 0, MaxUris)
          /\ size_threshold_mb = 20

\* the file the loop is at
Current == gcs_uris[Len(results) + 1]

\* batch_process_documents, lines 238-244: one turn of the loop, nothing raising
ProcessDocument ==
    /\ pc = "batch_process_documents"
    /\ Len(results) < Len(gcs_uris)
    /\ ~GcsRaises(Current, size_threshold_mb)
    /\ results' = Append(results,
                         process_gcs_document(Current, Len(results) + 1,
                                              size_threshold_mb))
    /\ UNCHANGED <<pc, user_model, user_brand, user_appliance_type, aux, top_k,
                   min_similarity, fetched, ret, sent, ret1, ingestVars>>

\* lines 245-251: one turn of the loop, the exception caught
ProcessDocumentFails ==
    /\ pc = "batch_process_documents"
    /\ Len(results) < Len(gcs_uris)
    /\ GcsRaises(Current, size_threshold_mb)
    /\ results' = Append(results,
                         [gcs_uri |-> Len(results) + 1,
                          error |-> ErrorText(Current, size_threshold_mb),
                          text |-> None])
    /\ UNCHANGED <<pc, user_model, user_brand, user_appliance_type, aux, top_k,
                   min_similarity, fetched, ret, sent, ret1, ingestVars>>

\* lines 253-260: the counts are printed, the records returned
BatchReturn ==
    /\ pc = "batch_process_documents"
    /\ Len(results) >= Len(gcs_uris)
    /\ pc' = "batch_process_documents returned"
    /\ ret' = [raised |-> FALSE,
               output |-> results,
               total |-> Len(gcs_uris),
               success |-> SuccessCount(results),
               failed |-> FailedCount(results)]
    /\ UNCHANGED <<callVars, sent, ret1, ingestVars>>

\* process_directory, lines 309-314: one turn of the loop, nothing raising
DirectoryDocument ==
    /\ pc = "process_directory"
    /\ Len(results) < Len(gcs_uris)
    /\ ~LocalRaises(Current, size_threshold_mb)
    /\ results' = Append(results,
                         process_local_document(Current, LocalPath(Len(results) + 1),
                                                size_threshold_mb))
    /\ UNCHANGED <<pc, user_model, user_brand, user_appliance_type, aux, top_k,
                   min_similarity, fetched, ret, sent, ret1, ingestVars>>

\* lines 315-321: one turn of the loop, the exception caught
DirectoryDocumentFails ==
    /\ pc = "process_directory"
    /\ Len(results) < Len(gcs_uris)
    /\ LocalRaises(Current, size_threshold_mb)
    /\ results' = Append(results,
                         [file_path |-> LocalPath(Len(results) + 1),
                          error |-> ErrorText(Current, size_threshold_mb),
                          text |-> None])
    /\ UNCHANGED <<pc, user_model, user_brand, user_appliance_type, aux, top_k,
                   min_similarity, fetched, ret, sent, ret1, ingestVars>>

\* line 323
DirectoryReturn ==
    /\ pc = "process_directory"
    /\ Len(results) >= Len(gcs_uris)
    /\ pc' = "process_directory returned"
    /\ ret' = [raised |-> FALSE, output |-> results]
    /\ UNCHANGED <<callVars, sent, ret1, ingestVars>>

NextProcess ==
    \/ ProcessDocument
    \/ ProcessDocumentFails
    \/ BatchReturn
    \/ DirectoryDocument
    \/ DirectoryDocumentFails
    \/ DirectoryReturn

SpecProcess == InitProcess /\ [][NextProcess]_vars

----------------------------------------------------------------------------
(* Calls of _check_model_appliance_type, made directly and by              *)
(* calculate_accuracy_score                                                *)

WD53_DBA900H == <<"W","D","5","3"," ","D","B","A","9","0","0","H">>
wd53dba9_padded == <<" ","w","d","5","3","d","b","a","9","*","*"," ">>
RF28HMEDBSR == <<"R","F","2","8","H","M","E","D","B","S","R">>
RF28X == <<"R","F","2","8","X">>

\* the models the detector is asked about: plain, with a space inside, with
\* wildcards and spaces around, shorter than six characters, a lone wildcard
DetectModels == {WD53DBA900H, WD53_DBA900H, wd53dba9_padded, RF28HMEDBSR, RF28, Star}

\* hits the auxiliary lookup may find besides AuxHits: a model stored with a
\* space inside, a hit without model metadata, a model shorter than six
\* characters, and an exact model found with a low score
DetectHits ==
    AuxHits \cup
    {[id |-> 8, score |-> 880, text |-> "fridge manual, spaced model",
      metadata |-> [brand |-> Samsung, model_number |-> RF28_HMEDBSR,
                    appliance_type |-> Fridge]],
     [id |-> 9, score |-> 880, text |-> "manual without model",
      metadata |-> [brand |-> Samsung, appliance_type |-> washer]],
     [id |-> 10, score |-> 450, text |-> "short model manual",
      metadata |-> [brand |-> Samsung, model_number |-> RF28X,
                    appliance_type |-> fridge]],
     [id |-> 11, score |-> 420, text |-> "fridge manual, far",
      metadata |-> [brand |-> Samsung, model_number |-> WD53DBA900H,
                    appliance_type |-> fridge]]}

\* the answers of the backend to the auxiliary lookup: an exception, or at
\* most MaxAux distinct hits in rank order
DetectAnswers ==
    {NoAnswer} \cup
    {[raised |-> FALSE, hits |-> h] :
        h \in {l \in SeqsOf(DetectHits, 0, MaxAux) :
                  Ranked(l) /\ \A i, j \in 1..Len(l) : i # j => l[i].id # l[j].id}}

InitDetect ==
    /\ ret = NotReturned
    /\ ret1 = NotReturned
    /\ sent = <<>>
    /\ NoJob
    /\ top_k = 5
    /\ min_similarity = 700
    /\ fetched = [raised |-> FALSE, hits |-> <<>>]
    /\ user_model \in DetectModels
    /\ user_brand = Samsung
    /\ aux \in DetectAnswers
    /\ \/ /\ pc = "_check_model_appliance_type"
          /\ results = <<>>
          /\ user_appliance_type = None
       \/ /\ pc = "call"
          /\ results \in {<<>>, <<[score |-> 880, metadata |-> SamsungFridge]>>}
          /\ user_appliance_type \in {None, Fridge, washer}

\* one call of _check_model_appliance_type(user_model, user_brand) returns
Detect ==
    /\ pc = "_check_model_appliance_type"
    /\ pc' = "_check_model_appliance_type returned"
    /\ ret' = [raised |-> FALSE,
               output |-> _check_model_appliance_type(user_model, aux)]
    /\ sent' = sent \o <<AuxRequest(user_brand)>>
    /\ UNCHANGED <<callVars, ret1, ingestVars>>

NextDetect == Detect \/ Score

SpecDetect == InitDetect /\ [][NextDetect]_vars

----------------------------------------------------------------------------
(* Manuals ingested by ingest_manuals_from_gcs, then searched through      *)
(* search_manuals_rag with a brand and a product type                      *)

Unknown == <<"U","n","k","n","o","w","n">>
appliance == <<"a","p","p","l","i","a","n","c","e">>

\* a manual is named by the parts of its file name, Brand_Model_Type.pdf:
\* gcs_uri.split("/")[-1].replace(".pdf", "").split("_")
ManualNames ==
    {<<Samsung, RS28A5F61, Fridge>>, <<Samsung, WD53DBA900H, washer>>,
     <<LG, RS28A5F61, fridge>>, <<Samsung, WD53DBA900H>>, <<Samsung>>}

\* ingest_manuals.py lines 75-82: the metadata of the manual's document
ManualMetadata(parts) ==
    [source |-> parts,
     filename |-> parts,
     pages |-> 1,
     brand |-> IF Len(parts) > 0 THEN parts[1] ELSE Unknown,
     product_type |-> IF Len(parts) > 2 THEN lower(parts[3]) ELSE appliance,
     model |-> IF Len(parts) > 1 THEN parts[2] ELSE Unknown]

\* vector_store.py lines 100-113: the point stored for the one chunk of the
\* i-th manual, payload = text + the document's metadata (score is the
\* similarity of its vector to the query of the search that follows)
ManualPoint(i, parts) ==
    [id |-> i, score |-> 880, text |-> ChunkText(i, 1), metadata |-> ManualMetadata(parts)]

InitAgree ==
    /\ pc = "ingest_manuals_from_gcs"
    /\ ret = NotReturned
    /\ ret1 = NotReturned
    /\ sent = <<>>
    /\ results = <<>>
    /\ aux = NoAnswer
    /\ user_model = None
    /\ user_brand \in {None, Samsung, LG}
    /\ user_appliance_type \in {None, fridge, washer}
    /\ top_k = 5
    /\ min_similarity = 700
    /\ fetched = [raised |-> FALSE, hits |-> <<>>]
    /\ index = EmptyDict
    /\ index_before = EmptyDict
    /\ batch_size = 100
    /\ embedding_model = "text-embedding-3-small"
    /\ nodes = <<>>
    /\ all_embeddings = <<>>
    /\ failed_batches = {}
    /\ embedded_docs = <<>>
    /\ embed_stats = NotReturned
    /\ batch_start = 0
    /\ next_id = 0
    /\ runs = 0
    /\ gcs_uris \in SeqsOf(ManualNames, 1, MaxUris)
    /\ size_threshold_mb = 20

\* ingest_manuals_from_gcs, lines 60-117, no step failing: every manual is
\* extracted, cut into one chunk, embedded and stored
IngestManuals ==
    /\ pc = "ingest_manuals_from_gcs"
    /\ pc' = "ingest_manuals_from_gcs returned"
    /\ index' = [i \in 1..Len(gcs_uris) |-> ManualPoint(i, gcs_uris[i])]
    /\ next_id' = Len(gcs_uris)
    /\ runs' = 1
    /\ UNCHANGED <<callVars, ret, sent, ret1, index_before, batch_size, embedding_model,
                   nodes, all_embeddings, failed_batches, embedded_docs, embed_stats,
                   batch_start, gcs_uris, size_threshold_mb>>

\* search_manuals_rag(query, top_k, brand=user_brand, product_type=
\* user_appliance_type) on the collection the job filled
SearchIngested ==
    /\ pc = "ingest_manuals_from_gcs returned"
    /\ pc' = "search_manuals_rag returned"
    /\ \E l \in IndexAnswers(index, search_manuals_rag_request(top_k, user_brand,
                                                              user_appliance_type)) :
          /\ fetched' = [raised |-> FALSE, hits |-> l]
          /\ ret' = [raised |-> FALSE, output |-> search_manuals_rag(l)]
    /\ sent' = sent \o <<search_manuals_rag_request(top_k, user_brand,
                                                    user_appliance_type)>>
    /\ UNCHANGED <<results, user_model, user_brand, user_appliance_type, aux, top_k,
                   min_similarity, ret1, ingestVars>>

NextAgree == IngestManuals \/ SearchIngested

SpecAgree == InitAgree /\ [][NextAgree]_vars

----------------------------------------------------------------------------
(* Properties of calculate_accuracy_score, checked under Spec *)

Returned == pc = "returned"

\* the call went through the component scores: some result, no mismatch error
Scored == Returned /\ results # <<>> /\ "error" \notin DOMAIN ret

\* the type of the manual the auxiliary lookup matched to the user's model
DetectedType == _check_model_appliance_type(user_model, aux)

\* user_model and user_appliance_type are both supplied and the lookup matched
\* the model to a manual whose (non-empty) type is not the claimed one
TypeMismatch ==
    /\ Truthy(user_model)
    /\ Truthy(user_appliance_type)
    /\ Truthy(DetectedType)
    /\ DetectedType # lower(user_appliance_type)

MismatchReturned ==
    ret = [accuracy |-> 0, level |-> "Wrong Appliance Type",
           breakdown |-> [similarity |-> 0, model_match |-> 0, brand_match |-> 0],
           error |-> "appliance_type_mismatch",
           detected_model_type |-> DetectedType,
           expected_type |-> lower(user_appliance_type),
           user_model |-> user_model]

\* C1 as stated: for every results list, empty or not, a type mismatch makes
\* the call return accuracy 0, level "Wrong Appliance Type", an all-zero
\* breakdown, error "appliance_type_mismatch", the detected type, the expected
\* type and the user's model.
C1_AsStated == (Returned /\ TypeMismatch) => MismatchReturned

\* C1, amended: the same for every non-empty results list; on an empty list the
\* emptiness check comes first and the mismatch is not reported.
C1_MismatchShortCircuits ==
    (Returned /\ TypeMismatch) =>
        IF results # <<>> THEN MismatchReturned ELSE "error" \notin DOMAIN ret

C1_Witness ==
    /\ Returned /\ TypeMismatch /\ results # <<>>
    /\ user_appliance_type = Fridge
    /\ ret.level = "Wrong Appliance Type"
    /\ ret.detected_model_type = washer

\* C2: with an empty results list the call returns accuracy 0, level
\* "No Information" and an all-zero breakdown, whatever user_model, user_brand
\* and user_appliance_type are.
C2_EmptyIsNoInformation ==
    (Returned /\ results = <<>>) =>
        ret = [accuracy |-> 0, level |-> "No Information",
               breakdown |-> [similarity |-> 0, model_match |-> 0, brand_match |-> 0]]

C2_Witness ==
    Returned /\ results = <<>> /\ TypeMismatch /\ ret.level = "No Information"

\* the auxiliary lookup answered, and no hit passes either matching pass
NoMatchingModel ==
    /\ ~aux.raised
    /\ \A i \in 1..Len(aux.hits) :
           /\ ~FirstPassMatch(CleanModel(upper(user_model)), aux.hits[i])
           /\ ~SecondPassMatch(CleanModel(upper(user_model)), aux.hits[i])

\* C3: when the auxiliary lookup raises or finds no matching model, the call
\* returns no error and exactly the score of the same results, user_model and
\* user_brand with user_appliance_type omitted.
C3_FailOpen ==
    (Returned /\ Truthy(user_model) /\ Truthy(user_appliance_type)
        /\ (aux.raised \/ NoMatchingModel)) =>
        /\ "error" \notin DOMAIN ret
        /\ ret = IF results = <<>> THEN NoInformationScore
                 ELSE ComponentScore(results, user_model, user_brand)
        /\ ret = calculate_accuracy_score(results, user_model, user_brand, None, aux)

C3_Witness ==
    /\ Returned /\ Truthy(user_model) /\ Truthy(user_appliance_type)
    /\ aux.raised /\ results # <<>>
    /\ ret.level = "Very High"

C3_WitnessNoMatch ==
    /\ Returned /\ Truthy(user_model) /\ Truthy(user_appliance_type)
    /\ NoMatchingModel /\ aux.hits # <<>> /\ results # <<>>

Abs(x) == IF x < 0 THEN 0 - x ELSE x

\* the score of result i, 0 when it holds none
ScoreAt(i) == Get(results[i], "score", 0)

RECURSIVE SumAt(_)
SumAt(I) == IF I = {} THEN 0
            ELSE LET i == CHOOSE x \in I : TRUE IN ScoreAt(i) + SumAt(I \ {i})

\* min(3, N) and the sum of the scores of the first min(3, N) results
HeadCount == Min(3, Len(results))
HeadSum == SumAt(1..HeadCount)

\* the sum of the min(3, N) highest scores of the list
HighestSum ==
    LET sums == {SumAt(I) : I \in {J \in SUBSET (1..Len(results)) :
                                       Cardinality(J) = HeadCount}}
    IN  CHOOSE v \in sums : \A w \in sums : w <= v

\* C5 as stated: accuracy is similarity*0.55 + model_match*0.25 +
\* brand_match*0.20 rounded to one decimal, the three terms being the values
\* of the returned breakdown (all in tenths: 100 * accuracy is nearest to
\* 55 * similarity + 250 * model_match + 200 * brand_match).
C5_AsStated ==
    Scored =>
        2 * Abs(100 * ret.accuracy
                - (55 * ret.breakdown.similarity + 250 * ret.breakdown.model_match
                   + 200 * ret.breakdown.brand_match)) <= 100

\* C5, amended: accuracy is S*0.55 + model_match*0.25 + brand_match*0.20
\* rounded to one decimal, where model_match and brand_match are the returned
\* breakdown values and S is 100 times the unrounded mean of the scores of the
\* first min(3, N) results; breakdown.similarity is S rounded separately.
C5_WeightedComposite ==
    Scored =>
        2 * Abs(100 * HeadCount * ret.accuracy
                - (55 * HeadSum + 250 * HeadCount * ret.breakdown.model_match
                   + 200 * HeadCount * ret.breakdown.brand_match)) <= 100 * HeadCount

C5_Witness ==
    /\ Scored
    /\ Len(results) = 3
    /\ ScoreAt(1) = 920 /\ ScoreAt(2) = 880 /\ ScoreAt(3) = 840
    /\ ret.breakdown = [similarity |-> 880, model_match |-> 100, brand_match |-> 100]
    /\ ret.accuracy = 934

\* C6 as stated: for a results list in whatever order, breakdown.similarity
\* is 100 times the mean of the min(3, N) highest scores, to one decimal.
C6_AsStated ==
    Scored => 2 * Abs(HeadCount * ret.breakdown.similarity - HighestSum) <= HeadCount

\* C6, amended: breakdown.similarity is 100 times the mean of the scores of the
\* first min(3, N) results in list order, to one decimal (a result with no
\* score counts as 0); these are the highest scores when the list is ranked.
C6_SimilarityOfFirstThree ==
    Scored =>
        /\ 2 * Abs(HeadCount * ret.breakdown.similarity - HeadSum) <= HeadCount
        /\ (\A i \in 1..(Len(results) - 1) : ScoreAt(i) >= ScoreAt(i + 1))
               => HeadSum = HighestSum

C6_Witness ==
    /\ Scored
    /\ Len(results) = 4
    /\ ScoreAt(1) = 618 /\ ScoreAt(2) = 618 /\ ScoreAt(3) = 920 /\ ScoreAt(4) = 1000
    /\ ret.breakdown.similarity = 719

\* the candidate's model metadata, uppercased
ModelAt(i) == upper(Get(Metadata(results[i]), "model_number", <<>>))

\* the user's model, uppercased, wildcards removed
UserModelWithoutWildcards == RemoveAll(upper(user_model), <<"*">>)

\* the user's model as the scan normalizes it, and its 8-character series
UserModelNormalized == strip(UserModelWithoutWildcards)
UserSeries == KeepAlnum(Prefix(UserModelNormalized, 8))

Qualifies100(u, i) ==
    ModelAt(i) # <<>> /\ (In(u, ModelAt(i)) \/ In(ModelAt(i), u))

Qualifies80(i) ==
    /\ ModelAt(i) # <<>>
    /\ ~Qualifies100(UserModelNormalized, i)
    /\ UserSeries # <<>>
    /\ In(UserSeries, ModelAt(i))

\* C7 as stated: model_match is 100 whenever the user's normalized model
\* (wildcards removed, uppercased) is a substring of, or contains, the model
\* metadata of any candidate, whatever its position and the earlier candidates.
C7_AsStated ==
    (Scored /\ Truthy(user_model)
        /\ \E i \in 1..Len(results) : Qualifies100(UserModelWithoutWildcards, i))
    => ret.breakdown.model_match = 100

\* C7, amended: model_match is 100 exactly when the user's normalized model
\* (uppercased, wildcards removed, surrounding whitespace stripped) is a
\* substring of, or contains, the model metadata of a candidate that no
\* candidate qualifying only for the series rule precedes.
C7_ExactMatchUnlessSeriesFirst ==
    (Scored /\ Truthy(user_model)) =>
        (ret.breakdown.model_match = 100
            <=> \E i \in 1..Len(results) :
                    /\ Qualifies100(UserModelNormalized, i)
                    /\ \A j \in 1..(i - 1) : ~Qualifies80(j))

C7_Witness ==
    /\ Scored
    /\ user_model = rs28a5f61_star
    /\ Len(results) >= 3
    /\ ~Qualifies100(UserModelNormalized, 1) /\ ~Qualifies80(1)
    /\ ModelAt(1) # <<>>
    /\ Qualifies100(UserModelNormalized, 3)
    /\ ret.breakdown.model_match = 100

\* the candidate's brand metadata, uppercased
BrandAt(i) == upper(Get(Metadata(results[i]), "brand", <<>>))

\* the supplied brand matches candidate i: substring either way, or one of
\* the supplied brand's whitespace tokens appears in the candidate's brand
BrandMatches(i) ==
    /\ BrandAt(i) # <<>>
    /\ \/ In(upper(user_brand), BrandAt(i))
       \/ In(BrandAt(i), upper(user_brand))
       \/ \E w \in Range(split(upper(user_brand))) : In(w, BrandAt(i))

BrandInferred ==
    Truthy(user_model) /\ \E i \in 1..Len(results) : InferHit(upper(user_model), results[i])

\* C8: brand_match is 100 iff a brand is supplied and matches some candidate
\* with brand metadata; it is 80 only when no brand is supplied and the brand
\* is inferred from the model; it is 0 otherwise, and a supplied brand that
\* matches nothing never falls back to inference.
C8_BrandMatch ==
    Scored =>
        LET supplied == Truthy(user_brand)
            matched == supplied /\ \E i \in 1..Len(results) : BrandMatches(i)
        IN  /\ ret.breakdown.brand_match = 100 <=> matched
            /\ ret.breakdown.brand_match = 80 <=> (~supplied /\ BrandInferred)
            /\ ret.breakdown.brand_match \in {0, 80, 100}
            /\ (supplied /\ ~matched) => ret.breakdown.brand_match = 0

C8_Witness ==
    /\ Scored
    /\ user_brand = Bosch
    /\ BrandInferred
    /\ ret.breakdown.brand_match = 0

\* C9: the returned accuracy and breakdown.similarity lie in 0..100 (0..1000
\* tenths), model_match is one of 0, 50, 80, 100 and brand_match one of
\* 0, 80, 100.
C9_Ranges ==
    Returned =>
        /\ ret.accuracy \in 0..1000
        /\ ret.breakdown.similarity \in 0..1000
        /\ ret.breakdown.model_match \in {0, 50, 80, 100}
        /\ ret.breakdown.brand_match \in {0, 80, 100}

C9_Witness ==
    /\ Scored
    /\ ret.accuracy = 1000
    /\ ret.breakdown = [similarity |-> 1000, model_match |-> 100, brand_match |-> 100]

\* the level the thresholds give to a returned accuracy (in tenths)
LevelOfReturned(a) ==
    IF a >= 900 THEN "Very High"
    ELSE IF a >= 750 THEN "High"
    ELSE IF a >= 600 THEN "Medium"
    ELSE IF a >= 400 THEN "Low"
    ELSE "Very Low"

\* C10: the returned level is the function of the returned accuracy given by
\* the inclusive thresholds 90, 75, 60, 40; a returned 90.0 is "Very High" and
\* a returned 75.0 is "High".
C10_LevelOfReturnedAccuracy == Scored => ret.level = LevelOfReturned(ret.accuracy)

----------------------------------------------------------------------------
(* Properties of search_samsung_manuals_rag, checked under SpecSearch *)

\* the call returned an output (the main search did not raise)
Answered == pc = "returned" /\ ~ret.raised

\* C4: when the accuracy_score of the output carries error
\* "appliance_type_mismatch", the output presents no troubleshooting content:
\* found_information is false, results is empty and context holds no manual
\* text.
C4_MismatchHaltsGuidance ==
    (Answered /\ "error" \in DOMAIN ret.accuracy_score) =>
        /\ ret.accuracy_score.error = "appliance_type_mismatch"
        /\ ret.found_information = FALSE
        /\ ret.results = <<>>
        /\ ret.context = <<NoRelevantInformation>>

\* the ranks of the fetched candidates whose score is at least t
Clearing(t) == {n \in 1..Len(fetched.hits) : fetched.hits[n].score >= t}

\* the first k of the fetched candidates whose score is at least t, in ranked order
FirstClearing(t, k) ==
    LET Q == Clearing(t)
        nth(j) == CHOOSE n \in Q : Cardinality({m \in Q : m < n}) = j - 1
    IN  [j \in 1..Min(k, Cardinality(Q)) |-> fetched.hits[nth(j)]]

\* max(0.5, min_similarity - 0.15), in thousandths
Relaxed == IF min_similarity - 150 > 500 THEN min_similarity - 150 ELSE 500

\* C12: the search asks the index for 3 * top_k candidates and, when some
\* fetched candidate has score >= min_similarity, returns exactly the first
\* top_k of the candidates with score >= min_similarity in ranked order:
\* num_results <= top_k, every returned score >= min_similarity, no candidate
\* ahead of a higher-ranked qualifying one.
C12_StrictFilter ==
    /\ pc = "returned" => sent[1].top_k = 3 * top_k
    /\ (Answered /\ Clearing(min_similarity) # {}) =>
           /\ ret.results = FirstClearing(min_similarity, top_k)
           /\ ret.num_results <= top_k
           /\ \A j \in 1..Len(ret.results) : ret.results[j].score >= min_similarity

C12_Witness ==
    /\ Answered
    /\ top_k = 1
    /\ Len(fetched.hits) = 3
    /\ Cardinality(Clearing(min_similarity)) = 2
    /\ ret.num_results = 1
    /\ ret.results[1] = fetched.hits[1]
    /\ sent[1].top_k = 3

\* C13 as stated: with no candidate at min_similarity and some at the relaxed
\* threshold the first top_k of those are returned and filtered_count is their
\* number; and always, filtered_count is the number of fetched candidates
\* clearing the threshold that produced the returned results (min_similarity,
\* the relaxed threshold, or retrieve's min_score 0.0 for the unfiltered top).
C13_AsStated ==
    Answered =>
        \E t \in {min_similarity, Relaxed, 0} :
            /\ ret.results = FirstClearing(t, top_k)
            /\ ret.filtered_count = Cardinality(Clearing(t))

\* C13, amended: filtered_count is the number of candidates at min_similarity
\* when there is one, and otherwise the number at the relaxed threshold; with
\* none at min_similarity and some at the relaxed threshold the first top_k of
\* those are returned; with none at either, the unfiltered first top_k are
\* returned and filtered_count is 0.
C13_RelaxedRetry ==
    Answered =>
        /\ Clearing(min_similarity) # {} =>
               ret.filtered_count = Cardinality(Clearing(min_similarity))
        /\ Clearing(min_similarity) = {} =>
               /\ ret.filtered_count = Cardinality(Clearing(Relaxed))
               /\ ret.results = IF Clearing(Relaxed) # {}
                                THEN FirstClearing(Relaxed, top_k)
                                ELSE FirstClearing(0, top_k)

C13_Witness ==
    /\ Answered
    /\ min_similarity = 950
    /\ top_k = 1
    /\ Clearing(min_similarity) = {}
    /\ Cardinality(Clearing(Relaxed)) = 2
    /\ Len(fetched.hits) = 3
    /\ ret.filtered_count = 2
    /\ ret.num_results = 1

C13_WitnessUnfiltered ==
    /\ Answered
    /\ Clearing(Relaxed) = {}
    /\ ret.num_results = 2
    /\ ret.filtered_count = 0

\* C14 as stated: for top_k >= 1, whenever the index returned at least one
\* candidate the output has num_results >= 1 and found_information true; and
\* in every output found_information is true iff num_results > 0, and
\* num_results is the length of results.
C14_AsStated ==
    Answered =>
        /\ (top_k >= 1 /\ fetched.hits # <<>>) =>
               (ret.num_results >= 1 /\ ret.found_information = TRUE)
        /\ ret.found_information = (ret.num_results > 0)
        /\ ret.num_results = Len(ret.results)

\* C14, amended: the same whenever the index returned at least one candidate
\* whose score is not negative; retrieve drops the candidates below its
\* min_score of 0.0 before any threshold of the search is applied.
C14_NeverEmptyByThreshold ==
    Answered =>
        /\ (top_k >= 1 /\ Clearing(0) # {}) =>
               (ret.num_results >= 1 /\ ret.found_information = TRUE)
        /\ Clearing(0) = {} => (ret.num_results = 0 /\ ret.found_information = FALSE)
        /\ ret.found_information = (ret.num_results > 0)
        /\ ret.num_results = Len(ret.results)

C14_Witness ==
    /\ Answered
    /\ top_k = 2
    /\ Len(fetched.hits) = 3
    /\ Clearing(500) = {}
    /\ Clearing(0) = {1, 2}
    /\ ret.num_results = 2
    /\ ret.found_information = TRUE

----------------------------------------------------------------------------
(* Properties of the retrieval functions, checked under SpecRetrieve *)

\* a call of retrieve, retrieve_with_metadata or search_manuals_rag returned
\* an output
Retrieved ==
    /\ pc \in {"retrieve returned", "retrieve_with_metadata returned",
               "search_manuals_rag returned"}
    /\ ~ret.raised

\* the context describes exactly the results rs: the sentinel alone when there
\* are none, and otherwise one block per result, of ranks 1..n in their order
DescribesExactly(context, rs) ==
    /\ context # <<>>
    /\ (context = <<NoRelevantInformation>>) <=> (rs = <<>>)
    /\ rs # <<>> =>
           /\ Len(context) = Len(rs)
           /\ \A j \in 1..Len(rs) :
                  context[j] = [rank |-> j,
                                source |-> rs[j].metadata.source,
                                relevance |-> Format2f(rs[j].score),
                                text |-> rs[j].text]

\* C15: in the output of retrieve and of search_samsung_manuals_rag, context
\* is the sentinel "No relevant information found." exactly when the returned
\* results are empty, never empty or absent, and otherwise one
\* "[rank] (Source: X, Relevance: score)" block per returned result, ranks
\* 1..n in the order of the returned results and describing exactly those.
C15_ContextDescribesResults ==
    /\ Retrieved =>
           /\ "context" \in DOMAIN ret.output
           /\ DescribesExactly(ret.output.context, ret.output.results)
    /\ (pc = "returned" /\ ~ret.raised) =>
           /\ "context" \in DOMAIN ret
           /\ DescribesExactly(ret.context, ret.results)

\* retrieve dropped every hit: the sentinel
C15_Witness ==
    /\ pc = "retrieve returned" /\ ~ret.raised
    /\ Len(fetched.hits) = 2
    /\ min_similarity = 950
    /\ ret.output.results = <<>>
    /\ ret.output.context = <<NoRelevantInformation>>

\* the search returned fewer results than were fetched: their blocks only
C15_WitnessSearch ==
    /\ pc = "returned" /\ ~ret.raised
    /\ Len(fetched.hits) = 3
    /\ Len(ret.results) = 1
    /\ Len(ret.context) = 1
    /\ ret.context[1].rank = 1

\* the brand, product_type and model a call hands to retrieve_with_metadata;
\* search_manuals_rag hands it its own brand and product_type, which default
\* to "Samsung" and "refrigerator", and no model
SuppliedFilters ==
    IF pc = "search_manuals_rag returned"
    THEN [brand |-> IF user_brand = Omitted THEN Samsung ELSE user_brand,
          appliance_type |-> IF user_appliance_type = Omitted THEN refrigerator
                             ELSE user_appliance_type,
          model_number |-> None]
    ELSE [brand |-> user_brand, appliance_type |-> user_appliance_type,
          model_number |-> user_model]

C16_WitnessNone ==
    /\ pc = "search_manuals_rag returned"
    /\ user_brand = None /\ user_appliance_type = None
    /\ sent[1].filters = NoFilters

----------------------------------------------------------------------------
(* Properties of two calls of calculate_accuracy_score, checked under       *)
(* SpecTwice                                                                *)

\* the call makes no auxiliary lookup: no result, no model or no claimed type
NoLookup ==
    results = <<>> \/ ~Truthy(user_model) \/ ~Truthy(user_appliance_type)

\* the score of the arguments when no mismatch is reported
UnmatchedScore ==
    IF results = <<>> THEN NoInformationScore
    ELSE ComponentScore(results, user_model, user_brand)

\* C11 as stated: two calls with identical (results, user_model, user_brand,
\* user_appliance_type) return identical outputs, whatever the collection
\* holds at each call and whatever was upserted between them.
C11_AsStated == pc = "both returned" => ret = ret1

\* C11, amended: the two outputs are identical when the call makes no
\* auxiliary lookup (results empty, or user_model or user_appliance_type not
\* supplied); otherwise each output is either the "Wrong Appliance Type"
\* result or the score of the arguments, according to what the collection
\* answers to the lookup at the time of the call.
C11_DeterministicButForLookup ==
    pc = "both returned" =>
        /\ NoLookup => (ret = ret1 /\ ret = UnmatchedScore)
        /\ \A r \in {ret, ret1} :
               \/ r = UnmatchedScore
               \/ /\ ~NoLookup
                  /\ "error" \in DOMAIN r
                  /\ r.level = "Wrong Appliance Type"

\* the collection gained the washer manual of the model between the calls
C11_Witness ==
    /\ pc = "both returned"
    /\ ~NoLookup
    /\ runs >= 1
    /\ ret1 = UnmatchedScore
    /\ ret.level = "Wrong Appliance Type"

\* no lookup: the same output on different collections
C11_WitnessNoLookup ==
    /\ pc = "both returned"
    /\ NoLookup /\ Truthy(user_model) /\ results = <<>>
    /\ runs >= 1
    /\ ret = ret1

----------------------------------------------------------------------------
(* Properties of the ingestion job and of add_documents, checked under      *)
(* SpecIngest                                                               *)

\* the number of the batch the p-th text falls in
BatchOf(p) == (p - 1) \div batch_size + 1

\* embed_texts has returned in the job under way or last run
EmbedReturned == pc \in {"add_documents", "ingest idle"} /\ nodes # <<>>

\* C19: embed_texts returns one output per input text, in input order, whatever
\* batches fail: None for each text of a failed batch, its own vector for each
\* text of a successful batch; while the loop runs the outputs of the batches
\* done are all there, in place, and the loop goes on after a failed batch.
C19_OnePerInputInOrder ==
    /\ pc = "embed_texts" => Len(all_embeddings) = Min(batch_start, Len(Texts))
    /\ EmbedReturned => Len(all_embeddings) = Len(Texts)
    /\ \A p \in 1..Len(all_embeddings) :
           all_embeddings[p] =
               IF BatchOf(p) \in failed_batches
               THEN None
               ELSE Vector(VectorLength(embedding_model), Texts[p])

\* three texts in batches of one, the second batch failed: the first and the
\* third text keep their vectors at their places
C19_Witness ==
    /\ pc = "add_documents"
    /\ Len(Texts) = 3
    /\ batch_size = 1
    /\ failed_batches = {2}
    /\ all_embeddings = <<Vector(VectorLength(embedding_model), Texts[1]),
                          None,
                          Vector(VectorLength(embedding_model), Texts[3])>>

\* the chunk texts of the job that fell in failed embedding batches
FailedTexts == {p \in 1..Len(nodes) : BatchOf(p) \in failed_batches}

\* C20: the statistics the job computes report failed = k and
\* valid = chunks - k, valid + failed = total, where k chunk texts fell in
\* failed embedding batches.
C20_AsStated ==
    (EmbedReturned /\ embed_stats # NotReturned) =>
        /\ embed_stats.failed = Cardinality(FailedTexts)
        /\ embed_stats.valid = Len(nodes) - Cardinality(FailedTexts)
        /\ embed_stats.valid + embed_stats.failed = embed_stats.total

\* the job has run to its end without an exception
JobCompleted ==
    /\ pc = "ingest idle"
    /\ nodes # <<>>
    /\ ret = [raised |-> FALSE, output |-> Len(embedded_docs)]

\* every chunk of the job's document was in the collection when the job started
AlreadyIngested ==
    \A p \in 1..Len(nodes) :
        \E id \in DOMAIN index_before :
            index_before[id].payload = [text |-> nodes[p].text,
                                        source |-> nodes[p].metadata.source]

\* C17: a job run on a document that is already ingested leaves the number of
\* points of the collection unchanged.
C17_AsStated ==
    (JobCompleted /\ AlreadyIngested) =>
        Cardinality(DOMAIN index) = Cardinality(DOMAIN index_before)

\* add_documents was called on documents one of which has an embedding of
\* another length than the collection's, and the call is over
MismatchedJobOver ==
    /\ pc = "ingest idle"
    /\ Offending(Points(embedded_docs)) # {}

\* C18: no point with a vector of another length than the collection's is in
\* the collection, and add_documents called on documents with such an embedding
\* fails leaving the collection as it was before the call.
C18_AsStated ==
    /\ \A id \in DOMAIN index : index[id].vector[2] = embedding_dim
    /\ MismatchedJobOver => (ret = [raised |-> TRUE] /\ index = index_before)

----------------------------------------------------------------------------
(* Properties of DocumentProcessor and process_directory, checked under     *)
(* SpecProcess                                                              *)

\* the i-th record reports a failure
IsFailureRecord(i) == "error" \in DOMAIN results[i]

\* the i-th file is smaller than the processor's threshold
BelowThreshold(i) == gcs_uris[i].size < size_threshold_mb * 1024 * 1024

\* C21: a file strictly below the threshold is extracted with Docling, a file
\* at or above it with PyMuPDF, and the processor named in the metadata is the
\* one whose text is returned.
C21_RoutesBySize ==
    \A i \in 1..Len(results) :
        ~IsFailureRecord(i) =>
            IF BelowThreshold(i)
            THEN /\ results[i].metadata.processor = "docling"
                 /\ results[i].text = (IF gcs_uris[i].docling = "text" THEN Markdown ELSE <<>>)
            ELSE /\ results[i].metadata.processor = "pymupdf"
                 /\ results[i].text = (IF gcs_uris[i].pymupdf = "text" THEN PageText ELSE <<>>)

\* a file of exactly 20MB, which both extractors can read, went to PyMuPDF
C21_Witness ==
    /\ size_threshold_mb = 20
    /\ Len(results) >= 1
    /\ gcs_uris[1].size = 20 * 1024 * 1024
    /\ gcs_uris[1].docling = "text"
    /\ ~IsFailureRecord(1)
    /\ results[1].metadata.processor = "pymupdf"
    /\ results[1].text = PageText

\* the fields of a record of a processed document
RecordFields == {"text", "file_path", "metadata", "gcs_uri"}

\* C22: a document fails only if neither extractor can parse the file, and a
\* record of a processed non-empty file with empty text carries a flag.
C22_AsStated ==
    \A i \in 1..Len(results) :
        /\ (IsFailureRecord(i) /\ gcs_uris[i].download = "ok") =>
               (gcs_uris[i].docling = "raises" /\ gcs_uris[i].pymupdf = "raises")
        /\ (~IsFailureRecord(i) /\ gcs_uris[i].size > 0 /\ results[i].text = <<>>) =>
               ~(DOMAIN results[i] \subseteq RecordFields)

\* processing the i-th locator raised
Raised(i) ==
    IF pc \in {"process_directory", "process_directory returned"}
    THEN LocalRaises(gcs_uris[i], size_threshold_mb)
    ELSE GcsRaises(gcs_uris[i], size_threshold_mb)

BatchReturned == pc \in {"batch_process_documents returned", "process_directory returned"}

\* the i-th record names the i-th locator; a failure record carries the error
\* text, and is there iff processing the locator raised
RecordOf(i) ==
    /\ IF pc = "process_directory returned"
       THEN ret.output[i].file_path = LocalPath(i)
       ELSE ret.output[i].gcs_uri = i
    /\ "error" \in DOMAIN ret.output[i] <=> Raised(i)
    /\ Raised(i) => /\ ret.output[i].error = ErrorText(gcs_uris[i], size_threshold_mb)
                    /\ ret.output[i].text = None

C23_WitnessEmptyText ==
    /\ pc = "batch_process_documents returned"
    /\ Len(gcs_uris) = 1
    /\ ~Raised(1)
    /\ ret.output[1].text = <<>>
    /\ ret.success = 0
    /\ ret.failed = 1

----------------------------------------------------------------------------
(* Index failures, checked under SpecRetrieve *)

\* one of the four search functions has returned or raised
SearchOver ==
    pc \in {"returned", "retrieve returned", "retrieve_with_metadata returned",
            "search_manuals_rag returned"}

\* C24: when the backend search behind a call of retrieve,
\* retrieve_with_metadata, search_manuals_rag or search_samsung_manuals_rag
\* raises, the call raises too; a success output with no results (and the
\* "No Information" score with it) is returned only when the backend answered
\* and no hit was left to return.
C24_FailureSurfaced ==
    SearchOver =>
        /\ fetched.raised => ret = [raised |-> TRUE]
        /\ ~fetched.raised => ~ret.raised
        /\ (pc = "returned" /\ ~ret.raised) =>
               /\ ret.results = <<>> =>
                      \/ top_k = 0
                      \/ \A n \in 1..Len(fetched.hits) : fetched.hits[n].score < 0
               /\ ret.accuracy_score.level = "No Information" <=> ret.results = <<>>

\* the backend raised on the search of search_samsung_manuals_rag
C24_Witness ==
    /\ pc = "returned"
    /\ fetched.raised
    /\ ret = [raised |-> TRUE]

\* the backend raised on the search of search_manuals_rag
C24_WitnessSearchManuals ==
    /\ pc = "search_manuals_rag returned"
    /\ fetched.raised
    /\ ret = [raised |-> TRUE]

----------------------------------------------------------------------------
(* Searches during ingestion, checked under SpecConcurrent *)

\* the ids of the points a search saw, and of the points add_documents is
\* called to write
SeenIds == {fetched.hits[n].id : n \in 1..Len(fetched.hits)}
JobIds == {embedded_docs[p].id : p \in 1..Len(embedded_docs)}

\* C26: no search made while add_documents writes a document's chunks sees
\* some of them and not the others.
C26_AsStated ==
    pc = "add_documents" => (SeenIds \cap JobIds = {} \/ JobIds \subseteq SeenIds)

----------------------------------------------------------------------------
(* Properties of _check_model_appliance_type, checked under SpecDetect *)

DetectReturned == pc = "_check_model_appliance_type returned"

\* the results the auxiliary lookup hands to the detector
AuxResults == IF aux.raised THEN <<>> ELSE search_manuals_rag(aux.hits).results

ModelOf(r) == Get(Metadata(r), "model_number", <<>>)

\* s without the characters of cs
RECURSIVE WithoutChars(_, _)
WithoutChars(s, cs) ==
    IF s = <<>> THEN <<>>
    ELSE (IF Head(s) \in cs THEN <<>> ELSE <<Head(s)>>) \o WithoutChars(Tail(s), cs)

\* the length of the longest common leading prefix of a and b
CommonPrefix(a, b) ==
    CHOOSE n \in 0..Min(Len(a), Len(b)) :
        /\ SubSeq(a, 1, n) = SubSeq(b, 1, n)
        /\ \A m \in (n + 1)..Min(Len(a), Len(b)) : SubSeq(a, 1, m) # SubSeq(b, 1, m)

\* every '*' and all whitespace removed, uppercased
NormalizedAll(s) == upper(WithoutChars(s, {"*"} \cup Whitespace))

\* rules (i), (ii), (iii) of the claim on two normalized strings
StatedMatch(u, m, score) ==
    LET shorter == Min(Len(u), Len(m))
    IN  \/ u = m
        \/ score > 500 /\ shorter >= 6 /\ SubSeq(u, 1, shorter) = SubSeq(m, 1, shorter)
        \/ score > 400 /\ 10 * CommonPrefix(u, m) >= 8 * shorter

\* C27 as stated: the detector declares a match (returns a type, not None)
\* iff some result of the auxiliary search satisfies rule (i), (ii) or (iii)
\* after both model strings have every '*' and all whitespace removed and
\* are uppercased.
C27_AsStated ==
    DetectReturned =>
        (ret.output # None
            <=> \E i \in DOMAIN AuxResults :
                    StatedMatch(NormalizedAll(user_model),
                                NormalizedAll(ModelOf(AuxResults[i])),
                                ResultScore(AuxResults[i])))

\* uppercased, every '*' removed, whitespace removed at both ends only
NormalizedEnds(s) == strip(WithoutChars(upper(s), {"*"}))

UserClean == NormalizedEnds(user_model)
CleanAt(i) == NormalizedEnds(ModelOf(AuxResults[i]))
Shorter(i) == Min(Len(UserClean), Len(CleanAt(i)))

\* the exact or full-prefix rule, and the 80%-prefix rule, as the detector
\* evaluates them on result i
RuleFirst(i) ==
    \/ UserClean = CleanAt(i)
    \/ /\ ResultScore(AuxResults[i]) > 500
       /\ Shorter(i) >= 6
       /\ SubSeq(UserClean, 1, Shorter(i)) = SubSeq(CleanAt(i), 1, Shorter(i))

RuleSecond(i) ==
    /\ ResultScore(AuxResults[i]) > 400
    /\ Shorter(i) >= 6
    /\ 10 * CommonPrefix(UserClean, CleanAt(i)) >= 8 * Shorter(i)

\* the rank of the one result chosen by priority, 0 if there is none
ChosenIndex ==
    LET first == {i \in DOMAIN AuxResults : RuleFirst(i)}
        second == {i \in DOMAIN AuxResults : RuleSecond(i)}
    IN  IF first # {} THEN CHOOSE i \in first : \A j \in first : i <= j
        ELSE IF second # {} THEN CHOOSE i \in second : \A j \in second : i <= j
        ELSE 0

ChosenType == lower(Get(Metadata(AuxResults[ChosenIndex]), "appliance_type", <<>>))

\* the detector was consulted by the call of calculate_accuracy_score that returned
Consulted ==
    Returned /\ results # <<>> /\ Truthy(user_model) /\ Truthy(user_appliance_type)

MismatchRaised == "error" \in DOMAIN ret

\* C29: the type the detector reports is that of one result, the first in
\* rank order satisfying the exact or full-prefix rule and, only if there is
\* none, the first satisfying the 80%-prefix rule; a mismatch is raised iff
\* that result's type is non-empty and differs, case-insensitively, from the
\* claimed type; the results ranked after the chosen one do not change the
\* outcome.
C29_ChosenByPriority ==
    /\ DetectReturned =>
          /\ ret.output = IF ChosenIndex = 0 THEN None ELSE ChosenType
          /\ \A k \in ChosenIndex..Len(AuxResults) :
                 ChosenIndex # 0 =>
                     _check_model_appliance_type(
                         user_model, [raised |-> FALSE, hits |-> SubSeq(aux.hits, 1, k)])
                       = ret.output
    /\ Consulted =>
          /\ MismatchRaised <=> /\ ChosenIndex # 0
                                /\ ChosenType # <<>>
                                /\ ChosenType # lower(user_appliance_type)
          /\ MismatchRaised => ret.detected_model_type = ChosenType

\* a result matching only by the 80%-prefix rule ranks above an exact match
\* of another type, and the exact match's type is the one reported
C29_Witness ==
    /\ DetectReturned
    /\ ChosenIndex > 1
    /\ RuleFirst(ChosenIndex)
    /\ RuleSecond(1)
    /\ Get(Metadata(AuxResults[1]), "appliance_type", <<>>) # <<>>
    /\ lower(Get(Metadata(AuxResults[1]), "appliance_type", <<>>)) # ChosenType
    /\ ret.output = ChosenType

\* a mismatch raised on the type of a chosen result that another match follows
C29_WitnessMismatch ==
    /\ Consulted
    /\ MismatchRaised
    /\ ChosenIndex = 1
    /\ Len(AuxResults) > 1
    /\ RuleFirst(2)
    /\ lower(Get(Metadata(AuxResults[2]), "appliance_type", <<>>)) = lower(user_appliance_type)

----------------------------------------------------------------------------
(* The scan deciding model_match, checked under Spec *)

\* candidate i holds a whitespace-delimited token, longer than three
\* characters, of the user's normalized model
HasToken(i) ==
    /\ ModelAt(i) # <<>>
    /\ \E j \in DOMAIN split(UserModelNormalized) :
           /\ Len(split(UserModelNormalized)[j]) > 3
           /\ In(split(UserModelNormalized)[j], ModelAt(i))

\* the first candidate in list order qualifying for 100 or for 80, 0 if none
FirstStop ==
    LET stops == {i \in 1..Len(results) :
                     Qualifies100(UserModelNormalized, i) \/ Qualifies80(i)}
    IN  IF stops = {} THEN 0 ELSE CHOOSE i \in stops : \A j \in stops : i <= j

\* C28: for a supplied user model the scan of results in list order returns
\* the value of the first candidate qualifying for 100 (substring either way)
\* or for 80 (the series prefix occurs in the candidate's model); if none
\* qualifies it returns 50 when some candidate holds a token (length > 3) of
\* the user's model, and 0 otherwise; candidates without model metadata are
\* skipped.
C28_FirstRuleWins ==
    (Scored /\ Truthy(user_model)) =>
        ret.breakdown.model_match =
            IF FirstStop # 0
            THEN IF Qualifies100(UserModelNormalized, FirstStop) THEN 100 ELSE 80
            ELSE IF \E i \in 1..Len(results) : HasToken(i) THEN 50
            ELSE 0

\* a series match, behind a candidate without model metadata, wins over an
\* exact match that follows it
C28_Witness ==
    /\ Scored
    /\ Truthy(user_model)
    /\ ModelAt(1) = <<>>
    /\ FirstStop > 1
    /\ ret.breakdown.model_match = 80
    /\ \E i \in (FirstStop + 1)..Len(results) : Qualifies100(UserModelNormalized, i)

\* no candidate qualifies for 100 or 80 and one holds a token
C28_WitnessToken ==
    /\ Scored
    /\ Truthy(user_model)
    /\ FirstStop = 0
    /\ ret.breakdown.model_match = 50
    /\ \E i \in 1..Len(results) : ModelAt(i) = <<>>

----------------------------------------------------------------------------
(* The metadata keys of ingestion and of retrieval, checked under SpecAgree *)

\* the i-th manual is named Brand_Model_Type and the search asks for its
\* brand and its type
SearchedFor(i) ==
    /\ Len(gcs_uris[i]) = 3
    /\ user_brand = gcs_uris[i][1]
    /\ user_appliance_type = lower(gcs_uris[i][3])

\* C30 as stated: the chunk stored for a manual of brand B, type T and model
\* M carries them under the payload keys brand, appliance_type and
\* model_number, and the search filtered by brand=B and product_type=T
\* returns it.
C30_AsStated ==
    pc = "search_manuals_rag returned" =>
        \A i \in DOMAIN index :
            SearchedFor(i) =>
                /\ \E n \in 1..Len(fetched.hits) : fetched.hits[n].id = i
                /\ Get(index[i].metadata, "brand", None) = gcs_uris[i][1]
                /\ Get(index[i].metadata, "appliance_type", None) = lower(gcs_uris[i][3])
                /\ Get(index[i].metadata, "model_number", None) = gcs_uris[i][2]

====
